----------------------------- MODULE MainProofs -----------------------------
(***************************************************************************)
(* What Main promises, for every environment and every width of a duration. *)
(* The inductive invariant says what main knows where it stands: nothing    *)
(* serves before the store has synced, errCh holds one result for each      *)
(* goroutine that has ended, a nil result means that the context is done,   *)
(* and only a signal ends the context before main has received an error.    *)
(***************************************************************************)
EXTENDS Main, TLAPS

Booting == {"config", "access", "sync", "unsynced"}

\* Nothing but the store runs until it has synced.
BootsAlone ==
    main \in Booting =>
        /\ sweeper = "off" /\ server = "off" /\ collector = "off"
        /\ listener = "off" /\ listened = "none"
        /\ ~nvml /\ sent = <<>> /\ received = 0

\* Once the configuration is loaded, there is one.
Configured == main \notin {"config", "done"} => cfg \in Configs

DoneIsExited == main = "done" <=> status = "exited"

One(ended) == IF ended THEN 1 ELSE 0

\* errCh: one result for each goroutine that has ended, and what main took.
Accounts ==
    /\ Len(sent) = One(server = "done") + One(collector = "done")
    /\ main = "first" => received = 0
    /\ main \in {"second", "last"} =>
          /\ received = 1
          /\ Len(sent) >= 1
          /\ main = "last" <=> sent[1] = "nil"

\* A goroutine ends without an error only when the context is done.
NilMeansCancelled ==
    /\ \A i \in 1 .. Len(sent) : sent[i] = "nil" => cancelled
    /\ listened = "nil" => closing
    /\ closing => cancelled
    /\ collector = "close" => cancelled

CancelledBySignal == cancelled /\ ~signalled => main \in {"second", "done"}

NvmlOpen == nvml <=> collector \in {"wait", "busy", "close"}

Inv ==
    /\ TypeOK
    /\ BootsAlone
    /\ Configured
    /\ DoneIsExited
    /\ Accounts
    /\ NilMeansCancelled
    /\ CancelledBySignal
    /\ NvmlOpen
    /\ ExitReportsFirstError
    /\ NothingLeftRunning
    /\ CleanExitNeedsSignal
    /\ PanicsOnlyUnvalidated

-----------------------------------------------------------------------------
(* The configuration.                                                       *)

LEMMA ConfigType ==
    ASSUME NEW env \in Environments
    PROVE  LoadConfig(env) \in Configs \cup {NoConfig}
  <1> DEFINE poll == ParseValueOrDefault(env.driverPollInterval, DefaultDriverPollInterval)
             scrape == ParseValueOrDefault(env.scrapeInterval, DefaultScrapeInterval)
             port == ParseValueOrDefault(env.exporterPort, DefaultExporterPort)
             endpoint == IF env.exporterEndpoint = "missing" THEN "pattern" ELSE env.exporterEndpoint
  <1>1. CASE env.nodeName = "named" /\ ValidIntervals(poll, scrape) /\ ValidPort(port)
    <2>1. poll > 0 /\ scrape > 0
      BY <1>1 DEF ValidIntervals
    <2>2. poll \in 1 .. MaxDuration
      <3>1. env.driverPollInterval \in Durations \cup {Unparsable}
        BY DEF Environments
      <3>2. poll \in Durations \cup {DefaultDriverPollInterval}
        BY <3>1 DEF ParseValueOrDefault
      <3> HIDE DEF poll, scrape
      <3> QED BY <2>1, <3>2, DurationAssumption
    <2>3. scrape \in 1 .. MaxDuration
      <3>1. env.scrapeInterval \in Durations \cup {Unparsable}
        BY DEF Environments
      <3>2. scrape \in Durations \cup {DefaultScrapeInterval}
        BY <3>1 DEF ParseValueOrDefault
      <3> HIDE DEF poll, scrape
      <3> QED BY <2>1, <3>2, DurationAssumption
    <2>4. port \in {p \in Nat : p >= 1024 /\ p <= 65535}
      <3>1. env.exporterPort \in Ports \cup {Unparsable}
        BY DEF Environments
      <3>2. port \in Ports \cup {DefaultExporterPort}
        BY <3>1 DEF ParseValueOrDefault
      <3>3. port >= 1024 /\ port <= 65535
        BY <1>1 DEF ValidPort
      <3> HIDE DEF poll, scrape, port
      <3>4. port \in Nat
        BY <3>2, PortAssumption
      <3> QED BY <3>3, <3>4
    <2>5. endpoint \in Endpoints
      <3>1. env.exporterEndpoint \in Endpoints \cup {"missing"}
        BY DEF Environments
      <3> QED BY <3>1 DEF Endpoints
    <2>6. LoadConfig(env) = [DriverPollInterval |-> poll, ScrapeInterval |-> scrape,
                             ExporterEndpoint |-> endpoint, ExporterPort |-> port]
      BY <1>1 DEF LoadConfig
    <2> HIDE DEF poll, scrape, port, endpoint
    <2>7. [DriverPollInterval |-> poll, ScrapeInterval |-> scrape,
           ExporterEndpoint |-> endpoint, ExporterPort |-> port] \in Configs
      BY <2>2, <2>3, <2>4, <2>5 DEF Configs
    <2> QED BY <2>6, <2>7
  <1>2. CASE ~(env.nodeName = "named" /\ ValidIntervals(poll, scrape) /\ ValidPort(port))
    BY <1>2 DEF LoadConfig
  <1> QED BY <1>1, <1>2

\* An interval has no half only if it is one unit.
LEMMA HalfOfOne ==
    ASSUME NEW n \in Nat \ {0}, ~(TickerInterval(n) > 0)
    PROVE  n = 1
  BY DEF TickerInterval

\* The first error of two results.
LEMMA FirstOfTwo ==
    ASSUME Len(sent) = 2, sent \in Seq(Results)
    PROVE  FirstError = IF sent[1] # "nil" THEN sent[1] ELSE sent[2]
  <1>1. DOMAIN sent = {1, 2}
    OBVIOUS
  <1> DEFINE IsFirst(i) == sent[i] # "nil" /\ \A j \in 1 .. i - 1 : sent[j] = "nil"
  <1>2. CASE sent[1] # "nil"
    <2>1. IsFirst(1)
      BY <1>2
    <2>2. \A i \in DOMAIN sent : IsFirst(i) => i = 1
      BY <1>1, <1>2
    <2>3. (CHOOSE i \in DOMAIN sent : IsFirst(i)) = 1
      BY <1>1, <2>1, <2>2
    <2> QED BY <1>1, <1>2, <2>3 DEF FirstError
  <1>3. CASE sent[1] = "nil" /\ sent[2] # "nil"
    <2>1. IsFirst(2)
      BY <1>3
    <2>2. \A i \in DOMAIN sent : IsFirst(i) => i = 2
      BY <1>1, <1>3
    <2>3. (CHOOSE i \in DOMAIN sent : IsFirst(i)) = 2
      BY <1>1, <2>1, <2>2
    <2> QED BY <1>1, <1>3, <2>3 DEF FirstError
  <1>4. CASE sent[1] = "nil" /\ sent[2] = "nil"
    BY <1>1, <1>4 DEF FirstError
  <1> QED BY <1>2, <1>3, <1>4

-----------------------------------------------------------------------------
(* Every step preserves the invariant.                                      *)

LEMMA InitInv == Init => Inv
  <1> SUFFICES ASSUME Init PROVE Inv
    OBVIOUS
  <1>1. sent = <<>> /\ Len(sent) = 0 /\ sent \in Seq(Results)
    BY DEF Init
  <1>2. TypeOK
    <2>1. "nil" \in Results
      BY DEF Results
    <2>2. /\ cfg \in Configs \cup {NoConfig} /\ exit \in Results
          /\ listened \in Results \cup {"none"} /\ received \in 0 .. 2
      BY <2>1 DEF Init
    <2> QED BY <1>1, <2>2 DEF Init, TypeOK, Loops
  <1>3. Accounts
    BY <1>1 DEF Init, Accounts, One
  <1>4. NilMeansCancelled
    BY <1>1 DEF Init, NilMeansCancelled
  <1>5. BootsAlone /\ Configured /\ DoneIsExited /\ CancelledBySignal /\ NvmlOpen
    BY DEF Init, BootsAlone, Configured, DoneIsExited, CancelledBySignal, NvmlOpen
  <1>6. /\ ExitReportsFirstError /\ NothingLeftRunning
        /\ CleanExitNeedsSignal /\ PanicsOnlyUnvalidated
    BY DEF Init, ExitReportsFirstError, NothingLeftRunning, CleanExitNeedsSignal,
           PanicsOnlyUnvalidated
  <1> QED BY <1>2, <1>3, <1>4, <1>5, <1>6 DEF Inv

\* A result goes to the end of errCh.
LEMMA SendAppends ==
    ASSUME sent \in Seq(Results), NEW result \in Results, Send(result)
    PROVE  /\ sent' \in Seq(Results)
           /\ Len(sent') = Len(sent) + 1
           /\ sent'[Len(sent) + 1] = result
           /\ \A i \in 1 .. Len(sent) : sent'[i] = sent[i]
           /\ received' = received
  BY DEF Send

\* main: LoadsConfig to ReceivesSecond.
LEMMA MainPreserves ==
    ASSUME Inv, status = "running", MainStep
    PROVE  Inv'
  <1> USE DEF
          Inv, TypeOK, BootsAlone, Configured, DoneIsExited, Accounts, One,
          NilMeansCancelled, CancelledBySignal, NvmlOpen, ExitReportsFirstError,
          NothingLeftRunning, CleanExitNeedsSignal, PanicsOnlyUnvalidated, Booting, Loops,
          processVars, storeVars, serverVars, collectorVars, channelVars
  <1>1. CASE LoadsConfig
    <2>1. cfg' \in Configs \cup {NoConfig}
      BY <1>1, ConfigType DEF LoadsConfig
    <2>2. CASE cfg' = NoConfig
      BY <1>1, <2>2 DEF LoadsConfig, Return, Errors, Results
    <2>3. CASE cfg' # NoConfig
      BY <1>1, <2>1, <2>3 DEF LoadsConfig
    <2> QED BY <2>2, <2>3
  <1>2. CASE OpensStore
    BY <1>2 DEF OpensStore, Return, Errors, Results
  <1>3. CASE CacheSynced
    BY <1>3 DEF CacheSynced
  <1>4. CASE StopsStore
    BY <1>4 DEF StopsStore, Stop, CloseStopCh
  <1>5. CASE SyncFails
    BY <1>5 DEF SyncFails, Return, Errors, Results
  <1>6. CASE ReceivesFirst
    <2>1. received = 0 /\ received' = 1 /\ Len(sent) >= 1 /\ sent[1] \in Results
      BY <1>6 DEF ReceivesFirst
    <2>2. CASE sent[1] = "nil"
      <3>1. main' = "last" /\ UNCHANGED cancelled
        BY <1>6, <2>1, <2>2 DEF ReceivesFirst
      <3>2. cancelled /\ signalled
        BY <1>6, <2>1, <2>2 DEF ReceivesFirst
      <3> QED BY <1>6, <2>1, <2>2, <3>1, <3>2 DEF ReceivesFirst
    <2>3. CASE sent[1] # "nil"
      <3>1. main' = "second" /\ cancelled'
        BY <1>6, <2>1, <2>3 DEF ReceivesFirst
      <3> QED BY <1>6, <2>1, <2>3, <3>1 DEF ReceivesFirst
    <2> QED BY <2>2, <2>3
  <1>7. CASE ReceivesSecond
    <2>1. /\ UNCHANGED <<signalled, cfg, cancelled, storeVars, serverVars, collectorVars, sent>>
          /\ received = 1 /\ received' = 2
          /\ main' = "done" /\ status' = "exited"
          /\ exit' = IF main = "second" THEN sent[1] ELSE sent[2]
      BY <1>7 DEF ReceivesSecond, Return
    <2>2. Len(sent) = 2 /\ server = "done" /\ collector = "done" /\ ~nvml
      BY <1>7 DEF ReceivesSecond
    <2>3. sent[1] \in Results /\ sent[2] \in Results
      BY <2>2
    <2>4. main = "second" <=> sent[1] # "nil"
      BY <1>7 DEF ReceivesSecond
    <2>5. FirstError' = exit'
      <3>1. FirstError' = FirstError
        BY <2>1 DEF FirstError
      <3> QED BY <2>1, <2>2, <2>4, <3>1, FirstOfTwo
    <2>6. exit' = "nil" => signalled
      BY <1>7, <2>1, <2>2, <2>4 DEF ReceivesSecond
    <2>7. TypeOK'
      BY <2>1, <2>3
    <2> QED BY <2>1, <2>2, <2>5, <2>6, <2>7
  <1> QED BY <1>1, <1>2, <1>3, <1>4, <1>5, <1>6, <1>7 DEF MainStep

\* The store's goroutines.
LEMMA StorePreserves ==
    ASSUME Inv, status = "running", StoreStep
    PROVE  Inv'
  <1> USE DEF
          Inv, TypeOK, BootsAlone, Configured, DoneIsExited, Accounts, One,
          NilMeansCancelled, CancelledBySignal, NvmlOpen, ExitReportsFirstError,
          NothingLeftRunning, CleanExitNeedsSignal, PanicsOnlyUnvalidated, Booting, Loops,
          processVars, storeVars, serverVars, collectorVars, channelVars
  <1>1. CASE StopperStops
    BY <1>1 DEF StopperStops, Stop, CloseStopCh
  <1>2. CASE StopperEnds
    BY <1>2 DEF StopperEnds
  <1>3. CASE InformerSyncs
    BY <1>3 DEF InformerSyncs
  <1>4. CASE InformerEnds
    BY <1>4 DEF InformerEnds
  <1>5. CASE SweeperStarts
    <2>1. cfg \in Configs
      BY <1>5 DEF SweeperStarts
    <2>2. cfg.ScrapeInterval \in Nat \ {0}
      BY <2>1, DurationAssumption DEF Configs
    <2>3. CASE TickerInterval(cfg.ScrapeInterval) > 0
      BY <1>5, <2>3 DEF SweeperStarts
    <2>4. CASE ~(TickerInterval(cfg.ScrapeInterval) > 0)
      <3>1. cfg.ScrapeInterval = 1
        BY <2>2, <2>4, HalfOfOne
      <3> QED BY <1>5, <2>4, <3>1 DEF SweeperStarts
    <2> QED BY <2>3, <2>4
  <1>6. CASE SweeperTurns
    BY <1>6 DEF SweeperTurns
  <1>7. CASE SweeperEnds
    BY <1>7 DEF SweeperEnds
  <1> QED BY <1>1, <1>2, <1>3, <1>4, <1>5, <1>6, <1>7 DEF StoreStep

\* GpuMetricsProvider.ListenAndServe and its listener.
LEMMA ServerPreserves ==
    ASSUME Inv, status = "running", ServerStep
    PROVE  Inv'
  <1> USE DEF
          Inv, TypeOK, BootsAlone, Configured, DoneIsExited, Accounts, One,
          NilMeansCancelled, CancelledBySignal, NvmlOpen, ExitReportsFirstError,
          NothingLeftRunning, CleanExitNeedsSignal, PanicsOnlyUnvalidated, Booting, Loops,
          processVars, storeVars, serverVars, collectorVars, channelVars
  <1>1. CASE ServerStarts
    <2>1. cfg \in Configs
      BY <1>1 DEF ServerStarts
    <2>2. cfg.ExporterEndpoint \in Endpoints
      BY <2>1 DEF Configs
    <2>3. CASE cfg.ExporterEndpoint = "pattern"
      <3>1. server' = "wait" /\ listener' = "start" /\ UNCHANGED status
        BY <1>1, <2>3 DEF ServerStarts
      <3> QED BY <1>1, <3>1 DEF ServerStarts
    <2>4. CASE cfg.ExporterEndpoint = "malformed"
      <3>1. status' = "panicked" /\ UNCHANGED <<server, listener>>
        BY <1>1, <2>4 DEF ServerStarts
      <3> QED BY <1>1, <2>4, <3>1 DEF ServerStarts
    <2> QED BY <2>2, <2>3, <2>4 DEF Endpoints
  <1>2. CASE ServerShutsDown
    BY <1>2 DEF ServerShutsDown
  <1>3. CASE ShutdownReturns
    <2>1. CASE server' = "drain" /\ UNCHANGED channelVars
      BY <1>3, <2>1 DEF ShutdownReturns
    <2>2. CASE server' = "done" /\ Send("deadline")
      <3>1. "deadline" \in Results
        BY DEF Results, Errors
      <3> HIDE DEF Results
      <3> QED BY <1>3, <2>2, <3>1, SendAppends DEF ShutdownReturns
    <2> QED BY <1>3, <2>1, <2>2 DEF ShutdownReturns
  <1>4. CASE ServerReturns
    <2>1. listened \in Results /\ Send(listened) /\ server' = "done"
      BY <1>4 DEF ServerReturns
    <2>2. listened = "nil" => cancelled
      OBVIOUS
    <2>3. /\ sent' \in Seq(Results) /\ Len(sent') = Len(sent) + 1 /\ received' = received
          /\ sent'[Len(sent) + 1] = listened
          /\ \A i \in 1 .. Len(sent) : sent'[i] = sent[i]
      BY <2>1, SendAppends
    <2> QED BY <1>4, <2>1, <2>2, <2>3 DEF ServerReturns
  <1>5. CASE ListenerBinds
    BY <1>5 DEF ListenerBinds
  <1>6. CASE ListenerReturns
    BY <1>6 DEF ListenerReturns, Results, Errors
  <1> QED BY <1>1, <1>2, <1>3, <1>4, <1>5, <1>6 DEF ServerStep

\* MetricsCollector.Run.
LEMMA CollectorPreserves ==
    ASSUME Inv, status = "running", CollectorStep
    PROVE  Inv'
  <1> USE DEF
          Inv, TypeOK, BootsAlone, Configured, DoneIsExited, Accounts, One,
          NilMeansCancelled, CancelledBySignal, NvmlOpen, ExitReportsFirstError,
          NothingLeftRunning, CleanExitNeedsSignal, PanicsOnlyUnvalidated, Booting, Loops,
          processVars, storeVars, serverVars, collectorVars, channelVars
  <1>1. CASE CollectorStarts
    <2>1. CASE collector' = "wait" /\ nvml' = TRUE /\ UNCHANGED channelVars
      BY <1>1, <2>1 DEF CollectorStarts
    <2>2. CASE collector' = "done" /\ Send("init") /\ UNCHANGED nvml
      <3>1. "init" \in Results
        BY DEF Results, Errors
      <3> QED BY <1>1, <2>2, <3>1, SendAppends DEF CollectorStarts
    <2> QED BY <1>1, <2>1, <2>2 DEF CollectorStarts
  <1>2. CASE CollectorTurns
    BY <1>2 DEF CollectorTurns
  <1>3. CASE CollectorStops
    BY <1>3 DEF CollectorStops
  <1>4. CASE CollectorReturns
    <2>1. PICK result \in {"nil", "shutdown"} : Send(result)
      BY <1>4 DEF CollectorReturns
    <2>2. result \in Results
      BY DEF Results, Errors
    <2>3. /\ sent' \in Seq(Results) /\ Len(sent') = Len(sent) + 1 /\ received' = received
          /\ sent'[Len(sent) + 1] = result
          /\ \A i \in 1 .. Len(sent) : sent'[i] = sent[i]
      BY <2>1, <2>2, SendAppends
    <2>4. collector = "close" /\ cancelled /\ collector' = "done" /\ nvml' = FALSE
      BY <1>4 DEF CollectorReturns
    <2>5. UNCHANGED <<processVars, cfg, cancelled, storeVars, serverVars>>
      BY <1>4 DEF CollectorReturns
    <2>6. Accounts'
      BY <1>4, <2>3, <2>4, <2>5
    <2>7. TypeOK'
      <3>1. sent' \in Seq(Results)
        BY <2>3
      <3>2. received' \in 0 .. 2
        BY <2>3
      <3>3. nvml' \in BOOLEAN
        BY <2>4
      <3>4. collector' \in Loops \cup {"close"}
        BY <2>4
      <3>5. /\ cfg' \in Configs \cup {NoConfig}
            /\ exit' \in Results /\ listened' \in Results \cup {"none"}
        BY <2>5
      <3> QED BY <2>5, <3>1, <3>2, <3>3, <3>4, <3>5
    <2>8. NilMeansCancelled'
      BY <2>3, <2>4, <2>5
    <2> QED BY <2>4, <2>5, <2>6, <2>7, <2>8
  <1> QED BY <1>1, <1>2, <1>3, <1>4 DEF CollectorStep

\* A signal.
LEMMA SignalPreserves ==
    ASSUME Inv, status = "running", Signal
    PROVE  Inv'
  <1> USE DEF
          Inv, TypeOK, BootsAlone, Configured, DoneIsExited, Accounts, One,
          NilMeansCancelled, CancelledBySignal, NvmlOpen, ExitReportsFirstError,
          NothingLeftRunning, CleanExitNeedsSignal, PanicsOnlyUnvalidated, Booting, Loops,
          processVars, storeVars, serverVars, collectorVars, channelVars
  <1>1. CASE main = "second"
    BY <1>1 DEF Signal
  <1>2. CASE main # "second"
    BY <1>2 DEF Signal
  <1> QED BY <1>1, <1>2

LEMMA StutterPreserves ==
    ASSUME Inv, UNCHANGED vars
    PROVE  Inv'
  <1>1. FirstError' = FirstError
    BY DEF FirstError, vars, channelVars
  <1> QED BY <1>1 DEF
          Inv, TypeOK, BootsAlone, Configured, DoneIsExited, Accounts, One,
          NilMeansCancelled, CancelledBySignal, NvmlOpen, ExitReportsFirstError,
          NothingLeftRunning, CleanExitNeedsSignal, PanicsOnlyUnvalidated, Booting, Loops,
          processVars, storeVars, serverVars, collectorVars, channelVars, vars

LEMMA NextPreserves == Inv /\ [Next]_vars => Inv'
  BY MainPreserves, StorePreserves, ServerPreserves, CollectorPreserves, SignalPreserves,
     StutterPreserves DEF Next, Ended

\* What main knows where it stands, and with it every property below, holds
\* throughout (main.go:23).
THEOREM Invariance == Spec => []Inv
  BY InitInv, NextPreserves, PTL DEF Spec

-----------------------------------------------------------------------------
(* What follows.                                                            *)

\* Every variable keeps its type: an accepted configuration is one, whatever
\* the environment, and errCh holds what the goroutines may send.
THEOREM TypeCorrect == Spec => []TypeOK
  <1>1. Inv => TypeOK
    BY DEF Inv
  <1> QED BY <1>1, Invariance, PTL

\* run's result is the first error of the server and the collector, once both
\* have reported (main.go:48).
THEOREM ExitIsFirstError == Spec => []ExitReportsFirstError
  <1>1. Inv => ExitReportsFirstError
    BY DEF Inv
  <1> QED BY <1>1, Invariance, PTL

\* run does not return before the server and the collector have ended and NVML
\* is shut down (main.go:51, metrics.go:98).
THEOREM ExitLeavesNothing == Spec => []NothingLeftRunning
  <1>1. Inv => NothingLeftRunning
    BY DEF Inv
  <1> QED BY <1>1, Invariance, PTL

\* run returns nil only after a signal (main.go:45).
THEOREM CleanExitWasAsked == Spec => []CleanExitNeedsSignal
  <1>1. Inv => CleanExitNeedsSignal
    BY DEF Inv
  <1> QED BY <1>1, Invariance, PTL

\* Only an interval of one unit or a malformed endpoint makes the process panic
\* (heap.go:75, prometheus.go:129), for every width of a duration.
THEOREM PanicsExplained == Spec => []PanicsOnlyUnvalidated
  <1>1. Inv => PanicsOnlyUnvalidated
    BY DEF Inv
  <1> QED BY <1>1, Invariance, PTL
=============================================================================

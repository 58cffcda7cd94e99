-------------------------------- MODULE Main --------------------------------
(***************************************************************************)
(* The life of the process: cmd/main.go, NewStoreFromConfig and the         *)
(* goroutines it leaves running, GpuMetricsProvider.ListenAndServe,         *)
(* MetricsCollector.Run and CleanupScheduler.StartSweeper.  What a poll and *)
(* a purge do is in Collector, Exporter and Store.                          *)
(*                                                                          *)
(* errCh is the sequence of what was sent on it and the number of results   *)
(* main has received.  The process ends when main returns, when a goroutine *)
(* panics, or when a signal comes after stop() gave the signals back.       *)
(***************************************************************************)
EXTENDS Config, Sequences

VARIABLES
    cfg,        \* Config
    status,     \* of the process
    exit,       \* what run returned
    main,       \* where main is
    signalled,  \* a signal was delivered to the context
    cancelled,  \* ctx.Done() is closed
    stopCh,     \* Store.stopCh is closed
    stopper,    \* the goroutine that stops the store
    informer,   \* informer.Run
    synced,     \* informer.HasSynced
    sweeper,    \* StartSweeper
    server,     \* ListenAndServe
    listener,   \* http.Server.ListenAndServe, in a goroutine of its own
    listened,   \* what the listener sent to its channel
    closing,    \* http.Server.Shutdown was called
    collector,  \* MetricsCollector.Run
    nvml,       \* between nvml.Init and nvml.Shutdown
    sent,       \* errCh: the results in the order they were sent
    received    \* errCh: how many of them main has received

processVars == <<status, exit, main, signalled>>
storeVars == <<stopCh, stopper, informer, synced, sweeper>>
serverVars == <<server, listener, listened, closing>>
collectorVars == <<collector, nvml>>
channelVars == <<sent, received>>
vars == <<processVars, cfg, cancelled, storeVars, serverVars, collectorVars, channelVars>>

Errors == {"config", "access", "sync", "listen", "deadline", "init", "shutdown"}
Results == Errors \cup {"nil"}
Loops == {"off", "start", "wait", "busy", "done"}

TypeOK ==
    /\ cfg \in Configs \cup {NoConfig}
    /\ status \in {"running", "exited", "panicked", "killed"}
    /\ exit \in Results
    /\ main \in {"config", "access", "sync", "unsynced", "first", "second", "last", "done"}
    /\ signalled \in BOOLEAN
    /\ cancelled \in BOOLEAN
    /\ stopCh \in BOOLEAN
    /\ stopper \in {"off", "wait", "done"}
    /\ informer \in {"off", "run", "done"}
    /\ synced \in BOOLEAN
    /\ sweeper \in Loops
    /\ server \in {"off", "start", "wait", "shutdown", "drain", "done"}
    /\ listener \in {"off", "start", "accept", "done"}
    /\ listened \in Results \cup {"none"}
    /\ closing \in BOOLEAN
    /\ collector \in Loops \cup {"close"}
    /\ nvml \in BOOLEAN
    /\ sent \in Seq(Results)
    /\ received \in 0 .. 2

Init ==
    /\ cfg = NoConfig
    /\ status = "running"
    /\ exit = "nil"
    /\ main = "config"
    /\ signalled = FALSE
    /\ cancelled = FALSE
    /\ stopCh = FALSE
    /\ stopper = "off"
    /\ informer = "off"
    /\ synced = FALSE
    /\ sweeper = "off"
    /\ server = "off"
    /\ listener = "off"
    /\ listened = "none"
    /\ closing = FALSE
    /\ collector = "off"
    /\ nvml = FALSE
    /\ sent = <<>>
    /\ received = 0

-----------------------------------------------------------------------------
(* main.                                                                    *)

Return(result) ==
    /\ main' = "done"
    /\ status' = "exited"
    /\ exit' = result

\* close(stopCh): closing it twice panics.
CloseStopCh == stopCh' = TRUE /\ UNCHANGED status

\* Mutant: Stop without stopOnce.
StopEveryTime ==
    /\ stopCh' = TRUE
    /\ status' = IF stopCh THEN "panicked" ELSE status

Stop == CloseStopCh

LoadsConfig ==
    /\ main = "config"
    /\ \E env \in Environments : cfg' = LoadConfig(env)
    /\ IF cfg' = NoConfig THEN Return("config")
       ELSE main' = "access" /\ UNCHANGED <<status, exit>>
    /\ UNCHANGED <<signalled, cancelled, storeVars, serverVars, collectorVars, channelVars>>

\* The client's configuration, verifyPodAccess and AddEventHandler may fail;
\* else the stopper and the informer start.
OpensStore ==
    /\ main = "access"
    /\ \/ /\ Return("access")
          /\ UNCHANGED <<stopper, informer>>
       \/ /\ main' = "sync"
          /\ stopper' = "wait"
          /\ informer' = "run"
          /\ UNCHANGED <<status, exit>>
    /\ UNCHANGED <<signalled, cfg, cancelled, stopCh, synced, sweeper,
                   serverVars, collectorVars, channelVars>>

\* WaitForCacheSync returns true: the sweeper, the server and the collector start.
CacheSynced ==
    /\ main = "sync"
    /\ synced
    /\ main' = "first"
    /\ sweeper' = "start"
    /\ server' = "start"
    /\ collector' = "start"
    /\ UNCHANGED <<status, exit, signalled, cfg, cancelled, stopCh, stopper, informer,
                   synced, listener, listened, closing, nvml, channelVars>>

\* WaitForCacheSync returns false, which it does only when ctx is done.
StopsStore ==
    /\ main = "sync"
    /\ cancelled
    /\ Stop
    /\ main' = "unsynced"
    /\ UNCHANGED <<exit, signalled, cfg, cancelled, stopper, informer, synced, sweeper,
                   serverVars, collectorVars, channelVars>>

SyncFails ==
    /\ main = "unsynced"
    /\ Return("sync")
    /\ UNCHANGED <<signalled, cfg, cancelled, storeVars, serverVars, collectorVars, channelVars>>

\* Mutant: the first error is returned without waiting for the other goroutine.
ReturnsFirst ==
    /\ main = "first"
    /\ Len(sent) > received
    /\ received' = received + 1
    /\ IF sent[received + 1] = "nil"
       THEN main' = "last" /\ UNCHANGED <<status, exit, cancelled>>
       ELSE Return(sent[received + 1]) /\ cancelled' = TRUE
    /\ UNCHANGED <<signalled, cfg, storeVars, serverVars, collectorVars, sent>>

\* Mutant: the first error cancels nothing.
ReceivesFirstQuietly ==
    /\ main = "first"
    /\ Len(sent) > received
    /\ received' = received + 1
    /\ main' = IF sent[received + 1] = "nil" THEN "last" ELSE "second"
    /\ UNCHANGED <<status, exit, signalled, cfg, cancelled, storeVars, serverVars,
                   collectorVars, sent>>

ReceivesFirst ==
    /\ main = "first"
    /\ Len(sent) > received
    /\ received' = received + 1
    /\ IF sent[received + 1] = "nil"
       THEN main' = "last" /\ UNCHANGED cancelled
       ELSE main' = "second" /\ cancelled' = TRUE
    /\ UNCHANGED <<status, exit, signalled, cfg, storeVars, serverVars, collectorVars, sent>>

\* Mutant: after an error the second result is returned.
ReturnsLatest ==
    /\ main \in {"second", "last"}
    /\ Len(sent) > received
    /\ received' = received + 1
    /\ Return(sent[received + 1])
    /\ UNCHANGED <<signalled, cfg, cancelled, storeVars, serverVars, collectorVars, sent>>

ReceivesSecond ==
    /\ main \in {"second", "last"}
    /\ Len(sent) > received
    /\ received' = received + 1
    /\ Return(IF main = "second" THEN sent[received] ELSE sent[received + 1])
    /\ UNCHANGED <<signalled, cfg, cancelled, storeVars, serverVars, collectorVars, sent>>

MainStep ==
    \/ LoadsConfig \/ OpensStore \/ CacheSynced \/ StopsStore \/ SyncFails
    \/ ReceivesFirst \/ ReceivesSecond

-----------------------------------------------------------------------------
(* The store's goroutines.                                                  *)

\* select of ctx.Done() and stopCh: either, when both are ready.
StopperStops ==
    /\ stopper = "wait"
    /\ cancelled
    /\ Stop
    /\ stopper' = "done"
    /\ UNCHANGED <<exit, main, signalled, cfg, cancelled, informer, synced, sweeper,
                   serverVars, collectorVars, channelVars>>

StopperEnds ==
    /\ stopper = "wait"
    /\ stopCh
    /\ stopper' = "done"
    /\ UNCHANGED <<processVars, cfg, cancelled, stopCh, informer, synced, sweeper,
                   serverVars, collectorVars, channelVars>>

InformerSyncs ==
    /\ informer = "run"
    /\ ~synced
    /\ synced' = TRUE
    /\ UNCHANGED <<processVars, cfg, cancelled, stopCh, stopper, informer, sweeper,
                   serverVars, collectorVars, channelVars>>

InformerEnds ==
    /\ informer = "run"
    /\ stopCh
    /\ informer' = "done"
    /\ UNCHANGED <<processVars, cfg, cancelled, stopCh, stopper, synced, sweeper,
                   serverVars, collectorVars, channelVars>>

\* time.NewTicker panics on an interval that is not positive.
SweeperStarts ==
    /\ sweeper = "start"
    /\ IF TickerInterval(cfg.ScrapeInterval) > 0
       THEN sweeper' = "wait" /\ UNCHANGED status
       ELSE status' = "panicked" /\ UNCHANGED sweeper
    /\ UNCHANGED <<exit, main, signalled, cfg, cancelled, stopCh, stopper, informer, synced,
                   serverVars, collectorVars, channelVars>>

\* A tick and the purge that follows it.
SweeperTurns ==
    /\ sweeper \in {"wait", "busy"}
    /\ sweeper' = IF sweeper = "wait" THEN "busy" ELSE "wait"
    /\ UNCHANGED <<processVars, cfg, cancelled, stopCh, stopper, informer, synced,
                   serverVars, collectorVars, channelVars>>

SweeperEnds ==
    /\ sweeper = "wait"
    /\ cancelled
    /\ sweeper' = "done"
    /\ UNCHANGED <<processVars, cfg, cancelled, stopCh, stopper, informer, synced,
                   serverVars, collectorVars, channelVars>>

StoreStep ==
    \/ StopperStops \/ StopperEnds \/ InformerSyncs \/ InformerEnds
    \/ SweeperStarts \/ SweeperTurns \/ SweeperEnds

-----------------------------------------------------------------------------
(* GpuMetricsProvider.ListenAndServe.                                       *)

\* errCh <- result, on a channel of two.
Send(result) ==
    /\ Len(sent) - received < 2
    /\ sent' = Append(sent, result)
    /\ UNCHANGED received

\* ServeMux.Handle panics on a malformed pattern.
ServerStarts ==
    /\ server = "start"
    /\ IF cfg.ExporterEndpoint = "pattern"
       THEN server' = "wait" /\ listener' = "start" /\ UNCHANGED status
       ELSE status' = "panicked" /\ UNCHANGED <<server, listener>>
    /\ UNCHANGED <<exit, main, signalled, cfg, cancelled, storeVars, listened, closing,
                   collectorVars, channelVars>>

ServerShutsDown ==
    /\ server = "wait"
    /\ cancelled
    /\ server' = "shutdown"
    /\ closing' = TRUE
    /\ UNCHANGED <<processVars, cfg, cancelled, storeVars, listener, listened,
                   collectorVars, channelVars>>

\* Shutdown returns nil, or its deadline passes while a connection is active.
ShutdownReturns ==
    /\ server = "shutdown"
    /\ \/ server' = "drain" /\ UNCHANGED channelVars
       \/ server' = "done" /\ Send("deadline")
    /\ UNCHANGED <<processVars, cfg, cancelled, storeVars, listener, listened, closing, collectorVars>>

\* Mutant: the listener's error is not passed on.
ServerReturnsNil ==
    /\ server \in {"wait", "drain"}
    /\ listened # "none"
    /\ Send("nil")
    /\ server' = "done"
    /\ UNCHANGED <<processVars, cfg, cancelled, storeVars, listener, listened, closing, collectorVars>>

\* The listener's result, before or after a shutdown.
ServerReturns ==
    /\ server \in {"wait", "drain"}
    /\ listened # "none"
    /\ Send(listened)
    /\ server' = "done"
    /\ UNCHANGED <<processVars, cfg, cancelled, storeVars, listener, listened, closing, collectorVars>>

\* The port is taken, or the address is bound; a server that is closing does not bind.
ListenerBinds ==
    /\ listener = "start"
    /\ ~closing
    /\ listener' = "accept"
    /\ UNCHANGED <<processVars, cfg, cancelled, storeVars, server, listened, closing,
                   collectorVars, channelVars>>

\* Listen or Accept fails; ErrServerClosed, after Shutdown, counts as nil.
ListenerReturns ==
    /\ listener \in {"start", "accept"}
    /\ \/ listened' = "listen" /\ ~(closing /\ listener = "accept")
       \/ listened' = "nil" /\ closing
    /\ listener' = "done"
    /\ UNCHANGED <<processVars, cfg, cancelled, storeVars, server, closing,
                   collectorVars, channelVars>>

ServerStep ==
    \/ ServerStarts \/ ServerShutsDown \/ ShutdownReturns \/ ServerReturns
    \/ ListenerBinds \/ ListenerReturns

-----------------------------------------------------------------------------
(* MetricsCollector.Run.                                                    *)

CollectorStarts ==
    /\ collector = "start"
    /\ \/ /\ collector' = "wait"
          /\ nvml' = TRUE
          /\ UNCHANGED channelVars
       \/ /\ collector' = "done"
          /\ Send("init")
          /\ UNCHANGED nvml
    /\ UNCHANGED <<processVars, cfg, cancelled, storeVars, serverVars>>

\* A tick and the collect that follows it.
CollectorTurns ==
    /\ collector \in {"wait", "busy"}
    /\ collector' = IF collector = "wait" THEN "busy" ELSE "wait"
    /\ UNCHANGED <<processVars, cfg, cancelled, storeVars, serverVars, nvml, channelVars>>

CollectorStops ==
    /\ collector = "wait"
    /\ cancelled
    /\ collector' = "close"
    /\ UNCHANGED <<processVars, cfg, cancelled, storeVars, serverVars, nvml, channelVars>>

\* The deferred nvml.Shutdown.
CollectorReturns ==
    /\ collector = "close"
    /\ nvml' = FALSE
    /\ collector' = "done"
    /\ \E result \in {"nil", "shutdown"} : Send(result)
    /\ UNCHANGED <<processVars, cfg, cancelled, storeVars, serverVars>>

CollectorStep == CollectorStarts \/ CollectorTurns \/ CollectorStops \/ CollectorReturns

-----------------------------------------------------------------------------
\* SIGINT or SIGTERM.  After stop() it has its default effect again.
Signal ==
    /\ IF main = "second"
       THEN status' = "killed" /\ UNCHANGED <<signalled, cancelled>>
       ELSE signalled' = TRUE /\ cancelled' = TRUE /\ UNCHANGED status
    /\ UNCHANGED <<exit, main, cfg, storeVars, serverVars, collectorVars, channelVars>>

Ended == status # "running" /\ UNCHANGED vars

Next ==
    \/ /\ status = "running"
       /\ MainStep \/ StoreStep \/ ServerStep \/ CollectorStep \/ Signal
    \/ Ended

Spec == Init /\ [][Next]_vars

\* Every goroutine runs on, and every call returns, Shutdown within its five
\* seconds; a select that finds ctx.Done() ready again and again takes it.
\* Nothing makes the informer sync.
Running(A) == status = "running" /\ A
Fairness ==
    /\ WF_vars(Running(MainStep))
    /\ WF_vars(Running(StopperStops \/ StopperEnds))
    /\ WF_vars(Running(ServerStep))
    /\ WF_vars(Running(ListenerBinds \/ ListenerReturns))
    /\ WF_vars(Running(CollectorStep))
    /\ SF_vars(Running(CollectorStops))

FairSpec == Spec /\ Fairness

-----------------------------------------------------------------------------
(* Properties.                                                              *)

FirstError ==
    IF \E i \in DOMAIN sent : sent[i] # "nil"
    THEN sent[CHOOSE i \in DOMAIN sent :
                  sent[i] # "nil" /\ \A j \in 1 .. i - 1 : sent[j] = "nil"]
    ELSE "nil"

\* A process that served returns once both goroutines have reported, and
\* returns the first error of the two: "Wait for shutdown; return the first
\* error" (main.go:48).
ExitReportsFirstError ==
    status = "exited" /\ sent # <<>> => Len(sent) = 2 /\ exit = FirstError

\* When run returns, however it failed, no poll is under way, NVML has been
\* shut down and ListenAndServe has returned.
NothingLeftRunning ==
    status = "exited" => ~nvml /\ collector \in {"off", "done"} /\ server \in {"off", "done"}

\* The process ends without an error only if it was asked to end: neither a
\* listener that closes nor a collector that stops is taken for success.
CleanExitNeedsSignal == status = "exited" /\ exit = "nil" => signalled

\* A configuration that was accepted makes the process panic only where it was
\* not validated: half of one nanosecond is no ticker's interval (heap.go:75),
\* and the endpoint is handed to ServeMux as it is (prometheus.go:129).  No
\* order of the store's stops closes stopCh twice.
PanicsOnlyUnvalidated ==
    status = "panicked" => cfg.ScrapeInterval = 1 \/ cfg.ExporterEndpoint = "malformed"

\* Once the context is done, the port cannot be served or a goroutine has
\* failed, the process ends: wherever it is in its start, whatever its
\* goroutines are doing, and though main takes two results one after the other.
Terminates ==
    (cancelled \/ listened = "listen" \/ \E i \in DOMAIN sent : sent[i] # "nil")
        ~> status # "running"
=============================================================================

------------------------------- MODULE Config -------------------------------
(***************************************************************************)
(* pkg/config/config.go over pkg/value/value.go: the environment the        *)
(* exporter is started in and the configuration made of it, and the ticker  *)
(* interval that pkg/kube/heap.go derives from that.                        *)
(*                                                                          *)
(* A setting is Unparsable when it is missing, blank or not a value of its  *)
(* type (a duration beyond 64 bits included).  HOST_PROC_MOUNT_POINT, which *)
(* any string satisfies, is left out.  Of an endpoint only whether          *)
(* net/http accepts it as a pattern matters: nothing validates it.          *)
(***************************************************************************)
EXTENDS Integers

CONSTANTS
    MaxDuration,                \* the largest time.Duration, 2^63 - 1 in the code
    Durations,                  \* the intervals an environment may give
    Ports,                      \* the ports an environment may give
    DefaultDriverPollInterval,
    DefaultScrapeInterval,
    DefaultExporterPort,
    Unparsable,
    NoConfig                    \* loadConfig's nil

ASSUME DurationAssumption ==
    /\ MaxDuration \in Nat \ {0}
    /\ Durations \subseteq -(MaxDuration + 1) .. MaxDuration
    /\ DefaultDriverPollInterval \in 1 .. MaxDuration
    /\ DefaultScrapeInterval \in 2 .. MaxDuration
    /\ DefaultScrapeInterval % DefaultDriverPollInterval = 0
ASSUME PortAssumption ==
    /\ Ports \subseteq Nat
    /\ DefaultExporterPort \in Nat
ASSUME UnparsableAssumption == Unparsable \notin Int

Endpoints == {"pattern", "malformed"}

Environments ==
    [nodeName           : {"named", "missing"},
     driverPollInterval : Durations \cup {Unparsable},
     scrapeInterval     : Durations \cup {Unparsable},
     exporterEndpoint   : Endpoints \cup {"missing"},
     exporterPort       : Ports \cup {Unparsable}]

Configs ==
    [DriverPollInterval : 1 .. MaxDuration,
     ScrapeInterval     : 1 .. MaxDuration,
     ExporterEndpoint   : Endpoints,
     ExporterPort       : {port \in Nat : port >= 1024 /\ port <= 65535}]

ParseValueOrDefault(setting, default) == IF setting = Unparsable THEN default ELSE setting

ValidIntervals(driverPollInterval, scrapeInterval) ==
    /\ driverPollInterval > 0
    /\ scrapeInterval > 0
    /\ scrapeInterval % driverPollInterval = 0

\* Mutant: privileged ports are accepted.
PortUpTo(port) == port <= 65535

ValidPort(port) == port >= 1024 /\ port <= 65535

LoadConfig(env) ==
    LET poll == ParseValueOrDefault(env.driverPollInterval, DefaultDriverPollInterval)
        scrape == ParseValueOrDefault(env.scrapeInterval, DefaultScrapeInterval)
        port == ParseValueOrDefault(env.exporterPort, DefaultExporterPort)
    IN  IF env.nodeName = "named" /\ ValidIntervals(poll, scrape) /\ ValidPort(port)
        THEN [DriverPollInterval |-> poll, ScrapeInterval |-> scrape,
              ExporterEndpoint |-> IF env.exporterEndpoint = "missing"
                                   THEN "pattern" ELSE env.exporterEndpoint,
              ExporterPort |-> port]
        ELSE NoConfig

\* NewCleanupScheduler's tickerInterval; the configuration's intervals are positive.
TickerInterval(scrapeInterval) == scrapeInterval \div 2
=============================================================================

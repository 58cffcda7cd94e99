\* Every order of the process's goroutines, from start to end.
CONSTANTS
    MaxDuration = 7
    Durations <- MCDurations
    Ports <- MCPorts
    DefaultDriverPollInterval = 1
    DefaultScrapeInterval = 2
    DefaultExporterPort = 9494
    Unparsable = Unparsable
    NoConfig = NoConfig
SPECIFICATION FairSpec
INVARIANTS TypeOK ExitReportsFirstError NothingLeftRunning CleanExitNeedsSignal PanicsOnlyUnvalidated
PROPERTY Terminates

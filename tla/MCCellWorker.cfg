\* Crashes anywhere, also between Popen and the durable record.
SPECIFICATION FairWorkerSpec
CONSTANTS
    Pids <- MCPids
    MaxTick = 3
    MaxCrashes = 2
INVARIANTS WorkerOwned
PROPERTIES RecordOutlivesWorker ControllerReturns

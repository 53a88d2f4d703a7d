SPECIFICATION Spec
CONSTANTS
    w1 = w1
    w2 = w2
    w3 = w3
    server = server
    cli = cli
    Workers <- MCWorkers
    Pids <- MCPids
    PidOf <- MCPidOf
    Blank = Blank
    NoFile = NoFile
INVARIANT
    OneWriterPerDatabase
CHECK_DEADLOCK FALSE

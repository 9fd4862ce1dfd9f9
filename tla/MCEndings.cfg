SPECIFICATION SumSpec
CONSTANTS
    Processes = {"server", "shell"}
    Threads = {"api1", "api2", "cli"}
    NoThread = "nobody"
    ProcessOf <- ApiAndCli
    Ids = {"s1", "s2"}
    MaxSaves = 2
    MaxCrashes = 1
    Clones = {"c1", "c2"}
    Sent = {1, 2, 3, 4, 5}
INVARIANTS TypeOK OneStrayPerCrash LockHeld
PROPERTIES Atomic EverythingEnds
\* Every scan may be done.
CHECK_DEADLOCK FALSE

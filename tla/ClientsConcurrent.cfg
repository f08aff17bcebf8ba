SPECIFICATION Spec
CONSTANTS
    Threads = {t1, t2}
    Nil = Nil
    Nothing = Nothing
    TrainingText <- MCTraining
    Hashes = {"twice", "own", "clash", "link"}
    Stored <- MCStored
    Confs <- MCConfs
    Methods = {"add", "mul", "sub"}
    Bodies <- MCBodies
    MaxConns = 4
    MaxFaults = 1
INVARIANTS
    ConnectionsAccounted
    SilentFailuresExplained
    CallsResolve
    SavedWhole
    HealthHonest

    
CHECK_DEADLOCK FALSE

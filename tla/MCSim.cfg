CONSTANT
    Scenarios = {"sc", "sc fork", "sc txs", "sc drain", "ll pool",
                 "ll txs", "ll header", "ll votes", "ll prune", "st ebs",
                 "st battle", "ib twice", "ib queue", "ib txs", "ib chain",
                 "engine"}
    Idle = FALSE
SPECIFICATION FairSpec
INVARIANTS AdapterSound   
PROPERTY EngineSound
CHECK_DEADLOCK FALSE

SPECIFICATION Spec
CONSTANTS
    op1 = op1
    op2 = op2
    svc = svc
    repo = repo
    home = home
    Operators <- TwoOperators
    Service = svc
    LaunchDirs <- RepoOnly
    HomeDir = home
    Writable <- RepoAndHome
    ScriptFiles <- InstallScripts
    Executable = TRUE
    MaxFaults = 1
SYMMETRY Symmetry
INVARIANTS InstallInv CheckpointHonest FlagHonest
PROPERTY StepsInOrder

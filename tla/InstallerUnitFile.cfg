SPECIFICATION AttendedSpec
CONSTANTS
    op1 = op1
    op2 = op2
    svc = svc
    repo = repo
    home = home
    Operators <- OneOperator
    Service = svc
    LaunchDirs <- RepoOnly
    HomeDir = home
    Writable <- RepoAndHome
    ScriptFiles <- InstallScripts
    Executable = TRUE
    MaxFaults = 1
PROPERTY Resumes

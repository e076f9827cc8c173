CONSTANTS
    app = app
    lib = lib
    tool = tool
    World = World
    Pkg = {app, tool}
    HostPkg = {tool}
    OverridePkg = {}
    StagingPkg = {}
    TargetPkg = {app, tool}
    ImagesPkg = {}
    PatchedPkg = {app}
    Dependencies <- MCDependencies
    Selected <- MCSelected
    RootfsDeps <- MCRootfsDeps
    CommandLines <- RestartGoals
    Plan <- MCPlan
    Edited = {}
    Fragile <- Mess
    HandRemoved <- DocumentedStamps
SPECIFICATION FairSpec
PROPERTIES DircleanRestores Converges

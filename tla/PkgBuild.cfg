CONSTANTS
    app = app
    lib = lib
    tool = tool
    World = World
    Pkg = {app, lib, tool}
    HostPkg = {tool}
    OverridePkg = {lib}
    StagingPkg = {lib}
    TargetPkg = {app, lib, tool}
    ImagesPkg = {app}
    PatchedPkg = {app}
    Dependencies <- MCDependencies
    Selected <- MCSelected
    RootfsDeps <- MCRootfsDeps
    CommandLines <- DailyGoals
    Plan <- MCPlan
    Edited = {lib}
    Fragile <- LibCareful
    HandRemoved = {}
SPECIFICATION Spec
INVARIANTS StampHonest DepsBeforeConfigure IInv
PROPERTIES RebuildTakesEffect OrderedSpec

CONSTANTS
    app = app
    lib = lib
    db = db
    main = main
    mid = mid
    exec = exec
    libImport = libImport
    File = {app, lib, db}
    Name = {main, mid, exec}
    Typed = {app, lib}
    Text <- MCText
    MayHold <- MCMayHold
    Candidates <- MCCandidates
    Options <- MCOptions
    Workspaces <- MCWorkspaces
    MaySupersede = FALSE
SPECIFICATION Spec
INVARIANTS  NearPathsComplete DeltasReproduceFindings
PROPERTIES FingerprintsTrackDependencies

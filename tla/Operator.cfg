SPECIFICATION Spec
CONSTANTS
    Bundles <- ThreeTasks
    Handlers = {h1, h2}
    Main = main
    FirstJob = 19999
    MaxNotify = 3
    None = None
INVARIANTS
    TriggersReady
    JobIdOwn
    NoCrashAlone
SYMMETRY Symmetry

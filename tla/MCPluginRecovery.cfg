SPECIFICATION Spec
CONSTANTS
    N = 1
    MaxWorkers = 1
INVARIANT
    PluginRecovers

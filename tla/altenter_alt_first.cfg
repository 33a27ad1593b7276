SPECIFICATION Spec
CONSTANTS
    MaxWindows = 2
    RuleSets <- MCNoEnterFirst
INVARIANT OneToggle

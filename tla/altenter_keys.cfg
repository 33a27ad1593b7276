SPECIFICATION Spec
CONSTANTS
    MaxWindows = 2
    RuleSets <- MCAnyRules
INVARIANTS TogglesOnce NeverTrapped HookKnowsKeys

CONSTANTS
    None = None Text = Text temp = temp
    Keys = {temp}
    Numbers <- MCNumbers
    Settings <- MCSettings
    MaxWindow = 3
    MaxEdits = 2
SPECIFICATION Spec
INVARIANTS WindowIsExact WindowFollowsRule BaselineIsLastPassed RulesFollowConfiguration
PROPERTIES QuietWindowIsEmitted
CHECK_DEADLOCK FALSE

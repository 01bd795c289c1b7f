SPECIFICATION Spec
CONSTANTS
    Sources = {"a", "b"}
    FirstSource = "a"
    Slots = 2
    CacheAge = 1
    Alerts = {"title"}
    PushTries = 2
    RestoreTries = 2
    MaxNow = 2
    MaxRestarts = 1
    MaxChanges = 1
    MaxFaults = 1
    Crashes = TRUE
INVARIANTS
    WeatherInv
    IconsMatch
PROPERTIES
    RunsKeep
    ForecastsAdvance
    PanelServed

SPECIFICATION MCSpec
CONSTANTS
    Files <- MCFiles
    AppPath <- MCAppPath
    WorldPanels <- MCWorldPanels
    MaxPending = 4
INVARIANTS
    SettledPageAgrees
PROPERTIES
    PanelsLoad

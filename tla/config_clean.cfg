SPECIFICATION Spec
CONSTANTS
  Alarms = {1, 2}
  Inodes = {1, 2, 3, 4}
  DayLength = 2
  MaxClock = 2
  Volumes = {0}
  Stored <- OnlySet
  Backups <- SetOrFired
  IpcOps = {"alarm", "settings", "export", "import"}
CONSTRAINT Explored
INVARIANT TypeOK
INVARIANT CommittedIfClean
INVARIANT SettingsKept
PROPERTY NoReplay

SPECIFICATION Spec
CONSTANTS
  Conns = {"c1", "c2"}
  Fonts = {"f1", "f2"}
  Archived = {"f1"}
  Backlog = 2
  MaxFaults = 2
  MaxOthers = 1
INVARIANT BackupInv
PROPERTY RestoreAllOrNothing
PROPERTY BackupTrue
PROPERTY MaintenanceEnds

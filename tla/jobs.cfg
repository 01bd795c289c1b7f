SPECIFICATION Spec
CONSTANTS
  s1 = s1
  s2 = s2
  Conns = {c1, c2}
  Songs <- MCSongs
  Batches <- MCBatches
  SlotCount = 2
  Quota = 1
  MaxSize = 1
  MaxId = 3
INVARIANTS
  JobsInv
  UploadGate
  QuotaRespected
PROPERTY JobsServed

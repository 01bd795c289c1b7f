SPECIFICATION Spec
CONSTANTS
  Podcasts = {"p1", "p2"}
  Requests = {r1, r2}
  MaxUploads = 2
INVARIANT ImportInv
PROPERTY ImportEnds
PROPERTY BatchServed

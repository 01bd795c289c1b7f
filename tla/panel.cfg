SPECIFICATION Spec
CONSTANTS
  Contents = {c1, c2}
  Levels = {20, 100}
  Full = 100
  DiagnosticFor = 1
INVARIANTS DisplayInv NoLostRedraw
PROPERTY DisplayServed

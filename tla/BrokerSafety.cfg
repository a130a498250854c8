CONSTANTS
  MaxRoutes = 2
  Workers = {w1, w2}
SPECIFICATION Spec
SYMMETRY WorkerSymmetry
INVARIANTS
  TypeOK
  GenuineError
  NoSpuriousReturn
  ErrorNeverDroppedAlone
  ReportNeverBlocks

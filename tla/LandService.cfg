SPECIFICATION Spec
CONSTANTS
  c1 = c1
  c2 = c2
  Clients <- TwoClients
  Areas <- ColumnAreas
  EditKeys <- LowerChunk
  MinY = 0
  MaxY = 1
  MaxLod = 3
  MaxGeneratableLod = 2
  MaxBoxSize = 24
  MaxOctaRadius = 16
  StaleAge = 1
  KeysPerTick = 1
  VisitsPerTick = 4
  MaxCalls = 2
  MaxTicks = 4
INVARIANTS Accounted ReadsGenerated Remembered
PROPERTIES SurfacesInOrder DrainedOnDestroy
SYMMETRY Symmetry
CHECK_DEADLOCK FALSE

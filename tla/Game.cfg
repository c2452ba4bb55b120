SPECIFICATION GameSpec
CONSTANTS
  k1 = k1
  k2 = k2
  c1 = c1
  c2 = c2
  sub1 = sub1
  sub2 = sub2
  sub3 = sub3
  Keys <- MeshKeys
  Queues <- MainAndDma
  MAX_PENDING_FRAMES = 2
  POOL_MAX_EXCESS_CMDBUFS = 0
  STALE_BUFFER_AGE_THRESHOLD = 1
  MIN_BUFFER_SIZE_TARGET = 2
  MAX_BUFFER_SIZE_TARGET = 4
  BUFFER_SIZE_STEP = 2
  Streams = {1, 2}
  ElementSize <- Sizes
  POOL_SIZE_BYTES = 3
  STALE_KEY_AGE_THRESHOLD = 1
  STALE_POOL_AGE_THRESHOLD = 2
  CONST_UPLOAD_BUFFER_STARTING_SIZE = 2
  RETRY_LIMIT = 1
  Plans <- AllPlans
  Resources <- GraphResources
  Passes <- GraphPasses
  MaxPasses = 3
  MaxFrames = 3
  Bases = {1, 2}
  Fanout = 2
  CHUNK_MAX_LOD = 2
  Lods <- LodTable
  Engaged <- NearTable
  SUPERCHUNK_MAX_AGE = 1
  TERRAIN_MAX_DIRECT_OP_COUNT = 3
  CHUNK_CACHE_SET_SIZE = 2
  UnloadLoading = FALSE
  MaxMoves = 4
  Counters <- TwoCounters
  SubTasks <- ThreeSubTasks
  Task = Task
  None = None
  Bodies <- CoroBodies
  CHUNK_SIZE_BLOCKS = 2
  Lands <- ThreeLands
  Editable <- EditableBlocks
  MaxEdits = 2
  Storages = {1, 2}
  Values = {0, 1, 2}
  NODES = 2
  LEAVES = 3
  ELEMENTS = 2
  Contents <- ChunkContents
  Lossy = FALSE
  MaxCalls = 2
  Scheme <- KeyScheme
  KeyboardKeys = {"W", "S", "ESC", "F", "UP", "1"}
  MouseKeys = {"LEFT", "RIGHT"}
  Settings <- KeySettings
  Devices <- PressedKeys
  MaxEvents = 4
  MaxLoops = 2
  LAST_RENDERED_LOD = 2
  LOAD_BOX_DISTANCE_LOD0 = 1
  LOAD_BOX_DISTANCE_LODN = 1
  Viewpoints <- TwoViewpoints
  World <- LoaderWorld
  Tables <- LoaderTables
  MaxRadius = 3
INVARIANTS InFlightKept TicksSound SurfaceOutlives MeshesSound GraphSound TerrainSound CoroSound GeometrySound RoundTrip ClientSound LoaderSound WalkExact
CHECK_DEADLOCK FALSE

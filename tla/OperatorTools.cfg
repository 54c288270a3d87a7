SPECIFICATION MCSpec
CHECK_DEADLOCK FALSE
CONSTANTS
  CZoneIds = {"via_1", "c1", "via_2"}
  CZoneTerminal = "c1"
  MirrorSum = 4
  PrefixTasks <- MCPrefixTasks
  Documents <- MCDocuments
  ViaIds <- MCViaIds
  SegmentIds <- MCSegmentIds
  Cells <- MCCells
  TypedIds = {"ghost"}
  HistoryLimit = 2
  MaxEdits = 2
  Nil = Nil
  LifecycleNodes = {"bt_navigator"}
  Scopes = {"local"}
  Inputs = {"depth_scan"}
  FreshFor <- MCFreshFor
  PollInterval = 1
  RpcTimeout = 1
  PrearmTimeout = 1
  StartupTimeout = 2
  MaxElapsed = 2
INVARIANTS
  StatusIsTrue
  EditsAreUndoable
  DiskRouteDrives
  PrearmIsEarned
PROPERTIES
  SaveWritesTheRoute
  KnowledgeMovesForward

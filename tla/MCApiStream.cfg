SPECIFICATION Spec
CONSTANTS
  Characters = {"<", "/", "t", " "}
  Space = " "
  CloseMarker <- MCClose
  ToolMarker <- MCTool
  CallEnd = "/"
  Deltas <- MCDeltas
  KeepAlive = 2
  MaxText = 8
  MaxRequests = 1
INVARIANTS
  SplitIsExact
  StreamAgrees
  LateBounded
  StreamSettles
CHECK_DEADLOCK FALSE

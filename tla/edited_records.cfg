SPECIFICATION SpecParts
CONSTANTS
  Used = {1}
  Elsewhere = {"replace", "delete"}
  MaxCvs = 3
  MaxEditions = 3
  MaxAsks = 2
  MaxClicks = 2
  MaxLapses = 1
  Me = 1
  Peer = 2
  MaxPeople = 2
  Fields = {"blocked", "role", "limit", "name", "plan"}
  PeerFields = {"blocked"}
  Filters = {"all", "over"}
  PageSize = 1
  MaxEdits = 2
  MaxGestures = 2
  MaxLosses = 1
  Providers = {p1, p2}
  Keyed = {p1, p2}
  InEnvironment = {p2}
  Environment = environment
  Texts = {"x", "y"}
  KeysAtFirst = {p1}
  ActiveAtFirst = {p2, environment}
  MaxRequests = 2
  MaxChanges = 1
  MaxMoves = 2
CHECK_DEADLOCK FALSE
INVARIANTS ChainsWhole FormIsOfItsCv EditShowsSaved
INVARIANTS AuditTellsState RowsAndPanelAgree OneActive FailureIsOfLast TableSettles
PROPERTY ReturnsWhereAsked

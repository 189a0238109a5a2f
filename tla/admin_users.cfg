SPECIFICATION Spec
CONSTANTS
  Me = 1
  Peer = 2
  MaxPeople = 2
  Fields = {"blocked", "role", "limit", "name", "plan"}
  PeerFields = {"blocked", "limit"}
  Filters = {"all", "over"}
  PageSize = 1
  MaxEdits = 2
  MaxGestures = 2
  MaxLosses = 1
CHECK_DEADLOCK FALSE
INVARIANTS TypeOK AuditTellsState RowsAndPanelAgree SelfKept
\* What the code says and does not hold: each is violated, checked alone.
\* PROPERTY AuditChains
\* PROPERTY ConfirmDoesAsAsked
\* INVARIANT HistoryKnowsOwn
\* with PeerFields = {"plan"}
\* INVARIANT OnePlan
\* with PeerFields = {"role"}
\* INVARIANT AdministratorRemains
\* with Fields = {}, PeerFields = {"limit"}, MaxEdits = 3
\* INVARIANT PageHasPager
\* with Fields = {}, PeerFields = {"blocked"}, MaxEdits = 3, MaxGestures = 0
\* INVARIANT HistoryTellsState
\* with Fields = {}, PeerFields = {"limit"}, MaxEdits = 4, MaxGestures = 0
\* INVARIANT OverrideAudited

SPECIFICATION FairSpec
CONSTANTS
  MaxRequests = 2
  MaxChanges = 1
  MaxMoves = 2
CHECK_DEADLOCK FALSE
INVARIANT TypeOK
INVARIANT NavRowsLead
PROPERTY ReturnsWhereAsked
PROPERTY SignedOutLeaves
\* What the code says and does not hold: each is violated, checked alone.
\* PROPERTY ExpiredReachesSignIn

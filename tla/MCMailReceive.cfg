SPECIFICATION Spec
CONSTANTS
  m1 = m1 m2 = m2 alice = alice Alice = Alice bob = bob outside = outside
  id1 = id1 id2 = id2
  Message = {m1, m2}
  Second = {1}
  MessageID = {id1}
  Received <- MCAlways
  RfcID <- MCSameID
  Address = {alice, Alice, bob, outside}
  Recipients <- MCBothAndOutside
  Lower <- MCLower
  Domain <- MCDomain
  Environment = {e1, e2}
  Copy = {c1, c2}
  Retries = 2
  None = None
INVARIANTS TypeOK FinishedIsIndexed RowsCanBeOpened
PROPERTY RowsAreNeverReplaced
CHECK_DEADLOCK FALSE

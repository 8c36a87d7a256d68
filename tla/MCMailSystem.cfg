SPECIFICATION FairSystemSpec
CONSTANTS
  alice = alice Alice = Alice bob = bob outside = outside
  id1 = id1 j1 = j1 tui = tui a = a
  Message = {1, 2}
  Second = {1, 2}
  MessageID = {id1}
  Received <- MCReceived
  RfcID <- MCSameID
  Address = {alice, Alice, bob, outside}
  Recipients <- MCRecipients
  Lower <- MCLower
  Domain <- MCDomain
  Environment = {e1}
  Copy = {c1}
  Retries = 2
  None = None
  Job = {j1}
  Process = {tui}
  ProcessOf <- MCOneProcess
  MailboxOf <- MCAlice
  Command <- MCRefresh
  PageLimit = 1
  NoJob = NoJob
  TextOf <- MCTextOf
INVARIANT ListedCanBeOpened
PROPERTIES SystemCaches StoredEndsCachedOrParked

SPECIFICATION Spec
CONSTANTS
  inbox = inbox work = work
  Key = {1, 2, 3}
  Mailbox = {inbox, work}
  Recipients <- MCRecipients
  Configured <- MCConfigured
  Count <- MCCount
  Query <- MCQuery
  PageLimit = 2
  Int32Size = 8
  None = None
INVARIANTS LsShowsTheNewest SearchMissesNothing

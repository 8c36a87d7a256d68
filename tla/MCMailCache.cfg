SPECIFICATION Spec
CONSTANTS
  j1 = j1 j2 = j2 j3 = j3 tui = tui cli = cli inbox = inbox work = work
  Key <- MCTwoKeys
  Mailbox = {inbox, work}
  Text = {a, b}
  Recipients <- MCOneShared
  Job = {j1, j2}
  Process = {tui, cli}
  ProcessOf <- MCTwoProcesses
  MailboxOf <- MCInboxWork
  Command <- MCRefreshSearch
  PageLimit = 2
  None = None
  NoJob = NoJob
INVARIANTS TypeOK IndexMatchesHeaders 
PROPERTY SyncIsAtomic

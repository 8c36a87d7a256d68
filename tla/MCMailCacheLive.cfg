SPECIFICATION FairSpec
CONSTANTS
  j1 = j1 j2 = j2 j3 = j3 tui = tui cli = cli inbox = inbox work = work
  Key <- MCOneKey
  Mailbox = {inbox}
  Text = {a}
  Recipients <- MCInInbox
  Job = {j1, j2, j3}
  Process = {tui, cli}
  ProcessOf <- MCOneTui
  MailboxOf <- MCAllInbox
  Command <- MCRefreshesLs
  PageLimit = 1
  None = None
  NoJob = NoJob
PROPERTY EverythingIsCached

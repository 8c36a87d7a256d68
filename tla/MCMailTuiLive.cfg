\* Liveness of loads and of the background refresh.
SPECIFICATION ConnectedSpec
CONSTANTS
  Mail <- MCMail2
  NoKey = NoKey
  Newest <- MCNewest
  WithImages <- MCNothing
  Delivered <- MCMail2
  Texts <- MCTexts
  Blank = "blank"
  Wirings <- MCWired
  Inputs <- MCLiveInputs
  Slots = {s1, s2}
  MaxTicks = 3
  MaxReloads = 6
  MaxFailures = 2
PROPERTIES
  EveryChoiceAnswered
  RefreshRevives
  BlankReaderRecovers

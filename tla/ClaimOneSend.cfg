\* The confirmation prompt is answered twice.
SPECIFICATION Spec
CONSTANTS
  Mail <- MCMail2
  NoKey = NoKey
  Newest <- MCNewest
  WithImages <- MCNothing
  Delivered <- MCMail2
  Texts <- MCTexts
  Blank = "blank"
  Wirings <- MCWired
  Inputs <- MCComposeInputs
  Slots = {s1, s2, s3}
  MaxTicks = 1
  MaxReloads = 0
  MaxFailures = 1
SYMMETRY SlotSymmetry
INVARIANTS
  OneSendPerDraft

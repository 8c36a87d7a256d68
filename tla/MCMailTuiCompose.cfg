\* Composing: overlapping reply fetches, editors and sends, with a refresh; with AWS
\* and without it; the user may quit at any time.  Loads do not fail; editors and sends may.
SPECIFICATION MCSpec
CONSTANTS
  Mail <- MCMail2
  NoKey = NoKey
  Newest <- MCNewest
  WithImages <- MCNothing
  Delivered <- MCMail2
  Texts <- MCTexts
  Blank = "blank"
  Wirings <- MCBoth
  Inputs <- MCComposeQuitInputs
  Slots = {s1, s2, s3}
  MaxTicks = 1
  MaxReloads = 0
  MaxFailures = 0
SYMMETRY SlotSymmetry
INVARIANTS
  TypeOK
  InflightNeverLeaks
  ConfirmingIsVisible
PROPERTIES
  SendsWhatWasConfirmed

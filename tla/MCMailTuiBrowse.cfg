\* Browsing while a message arrives: overlapping loads, renders, refreshes and
\* filters; resizes; no composer.
SPECIFICATION Spec
CONSTANTS
  Mail <- MCMail2
  NoKey = NoKey
  Newest <- MCNewest
  WithImages <- MCAllImages
  Delivered <- MCOnlyOne
  Texts <- MCTexts
  Blank = "blank"
  Wirings <- MCWired
  Inputs <- MCBrowseInputs
  Slots = {s1, s2, s3}
  MaxTicks = 3
  MaxReloads = 0
  MaxFailures = 3
SYMMETRY SlotSymmetry
INVARIANTS
  InflightExact
  SpinnerAlive
  NewestLoadAccounted
  SettledOnLatestChoice
  PaintedImagesMatch
PROPERTIES
  LoaderKeepsPromise
  OnlyUserMovesSelection

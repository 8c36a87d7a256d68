SPECIFICATION Spec
CONSTANTS
  a = a b = b c = c mailto = mailto
  Href = {a, b, c, mailto}
  Web = {a, b, c}
  UrlLen <- MCUrlLen
  maxLinks = 2
  Doc <- MCAll
  Broken <- MCBroken
  Width = {0, 4, 12}
  MaxLoads = 2
  NoMessage = NoMessage
INVARIANTS ShowsWhatWasAsked LinksLeadWhereTheySay FitsTheWidth

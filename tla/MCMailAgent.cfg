\* Two turns of two calls; two messages, a page of one, limits below and above both.
SPECIFICATION FairSpec
CONSTANTS
  Tool <- MCTools
  Halves <- MCHalves
  MaxCalls = 2
  MaxIters = 2
  Key <- MCKeys
  Query <- MCQueries
  Blank = {"blank"}
  Phrase <- MCPhrase
  Substring <- MCSubstring
  NoLimit = NoLimit
  DefaultList = 1
  DefaultSearch = 1
  PageLimit = 1
  Clamp = 3
  Int32Max = 3
  IntMax = 7
INVARIANTS
  TypeOK
  ResultsMatchCalls
  SearchFindsMatches
  SearchIsNotRefused
PROPERTY AgentEnds
\* The command ends.
CHECK_DEADLOCK FALSE

SPECIFICATION Spec
CONSTANTS
  me = me ME = ME meNamed = meNamed ann = ann annNamed = annNamed
  annComma = annComma part1 = part1 part2 = part2 bob = bob garbled = garbled
  Erick = Erick Ann = Ann Bob = Bob
  Address <- MCAddress
  Person = {Erick, Ann, Bob}
  Who <- MCWho
  Lower <- MCLower
  Plain <- MCPlain
  Pieces <- MCPieces
  Written <- MCWritten
  Me = Erick
  Selves = {me, None}
  Typed <- MCTyped
  Blinds <- MCBlinds
  Openings <- MCOpenings
  MaxMail = 3
  None = None
  Nobody = Nobody
INVARIANTS TypeOK ThreadIsWhole BlindStaysBlind AnswerReachesEveryone
CHECK_DEADLOCK FALSE

SPECIFICATION Spec
CONSTANTS
  d1 = d1
  d2 = d2
  Devices = {d1, d2}
  Games <- OneGame
  ValidGames <- OneGame
  Day <- FirstDay
  Kickoffs = {1}
  NoTimestamp = NoTimestamp
  Unconfirmed = Unconfirmed
  Infos = {v1, NoVenue}
  NoVenue = NoVenue
  NoGame = NoGame
  NoWrite = NoWrite
  KeepDays = 0
  MaxLaunches = 1
  LastDay = 1
SYMMETRY Phones
INVARIANTS
  TypeOK
  CopiesAnnounced
  OneRowPerGame
PROPERTIES
  ImplementsAnnouncedCatalog
CHECK_DEADLOCK FALSE

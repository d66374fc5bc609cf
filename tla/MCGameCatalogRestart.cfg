SPECIFICATION Spec
CONSTANTS
  d1 = d1
  d2 = d2
  Devices = {d1}
  Games <- WithLegacy
  ValidGames <- OneGame
  Day <- FirstDay
  Kickoffs = {1}
  NoTimestamp = NoTimestamp
  Unconfirmed = Unconfirmed
  Infos = {v1, NoVenue}
  NoVenue = NoVenue
  NoGame = NoGame
  NoWrite = NoWrite
  KeepDays = 1
  MaxLaunches = 3
  LastDay = 2
PROPERTIES
  ImplementsAnnouncedCatalog
CHECK_DEADLOCK FALSE

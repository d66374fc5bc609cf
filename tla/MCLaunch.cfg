SPECIFICATION PartsSpec
CONSTANTS
  MaxCalls = 3
  MaxTaps = 2
  PickerTeams <- MCPickerTeams
  AllTeams = "ALL TEAMS"
  Always = {"MNT", "WNT"}
  Games <- MCGames
  Team <- MCTeam
  Kickoff <- MCKickoff
  NoTimestamp = NoTimestamp
  TwoDays = 2
  FirstTime = 10
  LastTime = 14
  MaxLaunches = 2
INVARIANTS
  EnteredOnce
  NobodyIsStranded
  UpcomingFirst
  EveryGameHasItsPlace
  PlaceholdersAlone
PROPERTIES
  NeverWaitsForever
  PendingTapsAreHandled
CHECK_DEADLOCK FALSE

SPECIFICATION Spec
CONSTANTS
  Teams <- MenTeams
  AllTeams = "ALL TEAMS"
  Games <- MenGames
  Team <- TeamOf
  Mentions <- MenMentions
  Intervals = {"oneDay", "twoHours"}
  OneDay = "oneDay"
  TwoHours = "twoHours"
  MaxClicks = 2
  MaxLaunches = 2
INVARIANTS
  FollowingAgrees
  TagsMatchMenu
  LocalOnlyForClickedBells
  BellsAreScheduled
CHECK_DEADLOCK FALSE

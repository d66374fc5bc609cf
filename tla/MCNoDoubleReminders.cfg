SPECIFICATION Spec
CONSTANTS
  Teams <- MenTeams
  AllTeams = "ALL TEAMS"
  Games <- MenGames
  Team <- TeamOf
  Mentions <- MenMentions
  Intervals = {"oneDay", "twoHours"}
  OneDay = "oneDay"
  TwoHours = "twoHours"
  MaxClicks = 2
  MaxLaunches = 1
INVARIANTS
  NoDoubleReminders
CHECK_DEADLOCK FALSE

CONSTANTS
  None = None
  Leagues = {"nba", "ncaab"}
  Overtimes = 1
  Moments <- MCMoments
  Beginning = "day"
  MaxFailures = 1
  Boards = {"std50"}
  Numbers <- MCNumbers
SPECIFICATION FairSpec
INVARIANTS
  TypeOK
  
  WinnersRight
  
PROPERTIES
  NoSilentChange
  ResultIsRecorded
  ScoreIsRecorded

SPECIFICATION FairSpec
CONSTANTS
  Cards = {1, 2, 3, 4}
  Card <- CardOf
  FirstStatus <- StatusOf
  Tabs = {"today", "mine", "top", "saved"}
  FirstTab = "today"
  Interests = {{"home"}, {"money"}}
  AllowUnverified = TRUE
  Limit = 1
  TopLimit = 2
  Today = 4
  None = None
  MaxRequests = 2
  MaxMoves = 2
  MaxEvents = 2
CHECK_DEADLOCK FALSE
INVARIANTS
  NoRepeat
  EndIsComplete
  RulesAgree
PROPERTIES
  EmptyListAdvances

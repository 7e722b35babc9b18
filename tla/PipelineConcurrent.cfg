SPECIFICATION FairSpec
CONSTANTS
  Items = {1, 2}
  Runs = {x, y}
  None = None
  StoryOf <- SameStory
  Blocked = {2}
  Irrelevant = {}
  Breaking = {1}
  Official = {2}
  Publisher = {}
  MayCrash = FALSE
INVARIANTS
  ProcessedHasCard
PROPERTIES
  LedgerSpec
  EventuallySettled

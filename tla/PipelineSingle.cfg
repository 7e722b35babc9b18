SPECIFICATION Spec
CONSTANTS
  Items = {1, 2, 3}
  Runs = {x}
  None = None
  StoryOf <- TwoStories
  Blocked = {}
  Irrelevant = {}
  Breaking = {1}
  Official = {2}
  Publisher = {}
  MayCrash = TRUE
INVARIANTS
  OneAutoPublishPerStory
PROPERTIES
  StrandedByCutOnly

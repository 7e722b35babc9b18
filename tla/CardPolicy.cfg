SPECIFICATION FairSpec
CONSTANTS
  None = None
  Nobody = Nobody
  Publisher = Publisher
  Placeholder = Placeholder
  Publishers <- SomePublishers
  Official <- SomeOfficial
  Catalogued <- SomeCatalogued
  Eurostat = "eurostat"
  Strong <- StrongWords
  Incident <- IncidentWords
  Venue <- VenueWords
  Signal <- SignalWords
  Weak <- WeakWords
  Noisy <- NoisyWords
  Negation <- NegatedWords
  Deny <- DenyWords
  Sensitive <- SensitiveWords
  ReviewWords <- FlaggedWords
  Prefixes <- WordPrefixes
  Authorities <- AuthorityWords
  Feeds <- PressFeeds
  Samples <- SomeSamples
  Configs <- SomeConfigs
  Answers <- SomeAnswers
  MinShared = 3
  MinCoverage = 48
  MaxAge = 48
  OverlapWords = 8
  OverlapChars = 50
  SimilarChars = 40
  SimilarPercent = 72
  MinRelevance = 34
  AutoRelevance = 50
  AutoConfidence = 85
  ReviewDuplicates = TRUE
  Retries = 1
  MaxChanges = 1
CHECK_DEADLOCK FALSE
INVARIANTS
  PublishedOnItsMerits
  OneVoice
  PrimaryIsClear
  CardIsOwnWork
PROPERTIES
  EventuallySettled

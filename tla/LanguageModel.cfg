CONSTANTS
  Requests = {r1, r2}
  Endpoints = {"remote", "local"}
  LocalEndpoints = {"local"}
  SettingsChoices <- Choices
  MaxRepairs = 1
  MaxChanges = 2
  Nothing = Nothing
SPECIFICATION FairSpec
INVARIANTS
  CachedParserIsCurrent
  ExamplesAreOfTheirNetwork
PROPERTIES
  NothingLeavesUninvited
  EverySelectEnds
CHECK_DEADLOCK FALSE

SPECIFICATION ScheduleSpec
CONSTANTS
  Repositories = {"r1", "r2"}
  Others = {"r2"}
  Digests = {1}
  TagSets = {{"v1"}, {"v2"}}
  MaxFetches = 1
  RetryEvery = 2
  MaxChanges = 3
  MaxFaults = 2
  MaxUnseen = 2
PROPERTIES CatalogKept RetriesNotStarved

SPECIFICATION FairSpec
CONSTANTS
  Players = 1
  Bounties = 2
  MaxNow = 2
  MaxGame = 1
  MaxEdit = 1
  MaxUpset = 1
INVARIANTS
  WindowsFollowOn
PROPERTIES
  WonIsFinal
  QueueDrains
  CacheFollows

SPECIFICATION Spec
CONSTANTS
  first = first
  second = second
  stable = stable
  preview = preview
  zero = zero
  Runs <- TwoRuns
  Versions <- MCVersions
  Malformed <- MCMalformed
  Prereleases <- MCPrereleases
  Placeholder = zero
  Tags <- AllTags
  MaxAttempts = 2
INVARIANTS
  TypeOK
  BridgeFollowsFlight
  LatestIsStable
  UploadsWereProved
  RefusalsCrossLanes
  RedeliveryIsHarmless
PROPERTIES
  RunsEnd
CHECK_DEADLOCK FALSE

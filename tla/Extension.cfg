SPECIFICATION Spec
CONSTANTS
  Controllers = {"c1"}
  Tokens = {"t1"}
  Tasks = {1, 2}
  MaxEvents = 3
  IPs = {"ip1", "ip2"}
  Boots = {1, 2, 3}
  MaxActs = 6
  Cells = {"x"}
  Addrs = {"a", "b", "c"}
  Threats = {"a", "b"}
  BatchMax = 1
  MaxCache = 1
  MaxChanges = 3
INVARIANTS
  TypeOK
  ValidatedMeansAccepted
  ScriptsSurviveOverlap
  OneBootListens
  LastClickShown
  CacheWithinLimit
  AnswersComplete
  EmbedOverItsRoute
PROPERTIES
  DiscoveryEnds
  PopupShows
  ClickArrives
  EnrichmentEnds
CHECK_DEADLOCK FALSE

SPECIFICATION Spec
CONSTANTS
  ApiCalls = {1, 2}
  MaxShellActs = 6
  Texts = {"ip"}
  Rows = {"r1", "r2"}
  Loads = {1, 2}
  MaxLogActs = 3
  Ifaces = {"eth8"}
  MaxWans = 2
  Attempts = {1, 2}
  MaxWizardActs = 1
  Policies = {p1, p2}
  Controllable = {p1, p2}
  Groups = {{p1, p2}}
  RuleRequests = {1, 2}
  MaxRuleActs = 5
  Days = {1, 2}
  MaxRetentionActs = 4
  LogTypes = {"wifi"}
  Requests = {1, 2}
  MaxPurgeActs = 4
  Targets = {"db1"}
  Starts = {1, 2}
  MaxAnswers = 2
  MaxMigrationActs = 2
INVARIANTS
  TypeOK
  BaselineIsStored
  SwitchesShowController
  SavedWansValid
  DetailFollowsRow
PROPERTIES
  PurgeShownEnds
  MigrationOutcomeShown
  ExpiryShowsLogin
  TableCatchesUp
  TypedIsApplied
CHECK_DEADLOCK FALSE

SPECIFICATION FeaturesSpec
CONSTANTS
  None = None
  Requests <- MCRequests
  Reviewers = {a1, a2}
  Slots = {s1}
  Amounts <- MCAmounts
  MaxEarned = 2
  Overlap = FALSE
  CardIds = {c1, c2}
  MaxRedeemers = 2
  Channels = {ch1}
  Made0 = {}
  Targets = {t1}
  Markups = {2, 3}
  DefaultMarkup = 2
  Costs = {1, 2}
  Cost0 = 1
  Unpriced = {}
  PerCall = FALSE
  GroupPriced = {}
  MaxMoves = 1
  MaxAsks = 1
  SettingFields = {"logo_url", "recharge_plans", "epay_enabled", "epay_key"}
  SettingPages = {p1}
  Values = {2}
  MaxUploads = 2
  Tables = {"tasks", "llm_logs"}
  Days = {30, 90}
  MinDays = 30
  MaxPerRun = 1
  MaxRuns = 2
  MaxRows = 1
  Pages = {"creation", "image", "video", "music"}
  MaxSubmits = 3
INVARIANTS
  NeverOverdrawn
  FinalAfterFirst
  TakenAsDecided
  RedeemedOnce
  
  
  SoldAtMarkup
  SavedAsShown
  CleanupIsPreviewed
  OnePost
  LatestOnly
  
PROPERTIES
  VoidedForGood
  
SYMMETRY ReviewersAreAlike
CHECK_DEADLOCK FALSE

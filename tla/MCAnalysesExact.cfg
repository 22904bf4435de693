SPECIFICATION AnalysesSpec
CONSTANTS
  Hosts <- SomeHosts
  Texts <- SomeTexts
  Patterns <- SomePatterns
  MatchedBy <- Matching
  Schemes <- Https
  Rows <- MixedRows
  AsSent = AsSent
  NoRedirect = NoRedirect
  NoRoute = NoRoute
  MaxHops = 10
  MaxRoutes = 3
  Patience = 4
  MaxServices = 2
  MaxProbes = 2
  Order <- ShopFirst
  Codes <- SomeCodes
  Loads <- OneOrTwo
  MaxFlagged = 1
  MinRequests = 4
  Percent = 25
  MaxTotal = 5
  Inventory <- TwoDomains
  ProbedHosts <- TwoHosts
  HostOf <- BaseOf
  Critical = 1
  Warn = 4
  Shortest <- TwoAgo
  Longest = 6
  MaxSince = 2
  Services <- ShopAndBlog
  Ghost = "ghost"
  Platform = "haproxy"
  Statuses <- Checked
  Sizes <- FewServers
  Batches <- OneByOne
  MaxRows = 3
  MaxFindings = 1
INVARIANTS
  ShadowedIsExact
  LoopsAreExact
  RatesAreExact
  SweepIsExact
  TypeOK
  EveryOutageIsReported
  DeadIsExact
CHECK_DEADLOCK FALSE

SPECIFICATION AnalysesSpec
CONSTANTS
  Hosts <- SomeHosts
  Texts <- SomeTexts
  Patterns <- SomePatterns
  MatchedBy <- Matching
  Schemes <- BothSchemes
  Rows <- CutRows
  AsSent = AsSent
  NoRedirect = NoRedirect
  NoRoute = NoRoute
  MaxHops = 10
  MaxRoutes = 2
  Patience = 20
  MaxServices = 1
  MaxProbes = 1
  Order <- ShopFirst
  Codes <- SomeCodes
  Loads <- OneOrTwo
  MaxFlagged = 1
  MinRequests = 4
  Percent = 25
  MaxTotal = 5
  Inventory <- TwoDomains
  ProbedHosts <- TwoHosts
  HostOf <- BaseOf
  Critical = 1
  Warn = 4
  Shortest <- TwoAgo
  Longest = 6
  MaxSince = 2
  Services <- ShopAndBlog
  Ghost = "ghost"
  Platform = "haproxy"
  Statuses <- Checked
  Sizes <- FewServers
  Batches <- OneByOne
  MaxRows = 1
  MaxFindings = 1
INVARIANTS
  ShadowedNeverMatch
  PrecludedIsShadowed
  LoopsNeverEnd
  EndlessIsLoop
  RatesAreExact
  EveryDomainIsSwept
  DeadIsExact
  NoOutageIsMissed
CHECK_DEADLOCK FALSE

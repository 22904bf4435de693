SPECIFICATION Spec
CONSTANTS
  shop = shop
  blog = blog
  Ghost = ghost
  Services <- TwoServices
  Platform = "caddy"
  Statuses <- UpOrDown
  Sizes <- FewServers
  Batches <- OneByOne
  MaxRows = 3
  MaxFindings = 1
INVARIANT
  DeadIsExact

SPECIFICATION Spec
CONSTANTS
  shop = shop
  blog = blog
  Ghost = ghost
  Services <- TwoServices
  Platform = "traefik"
  Statuses <- WithUnchecked
  Sizes <- FewServers
  Batches <- OneByOne
  MaxRows = 3
  MaxFindings = 1
INVARIANTS
  HealthyMeansUp

SPECIFICATION Spec
CONSTANTS
  shop = shop
  blog = blog
  Ghost = ghost
  Services <- TwoServices
  Platform = "haproxy"
  Statuses <- Checked
  Sizes <- OneOrMany
  Batches <- OneOrNearlyAll
  MaxRows = 500
  MaxFindings = 100
INVARIANT
  OutagesComeFirst

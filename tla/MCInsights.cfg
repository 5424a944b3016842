SPECIFICATION InsightsSpec
CONSTANTS
  p1 = p1
  p2 = p2
  k1 = k1
  Workers = {w1, w2}
  Users = {u1}
  Keys = {k1}
  Providers = {p1, p2}
  ProviderOf <- MCProviderOf
  MaxFaults = 1
INVARIANTS
  SoleRunSettles
PROPERTIES
  DecisionsStand
  ClearedInsightsClose
  LiveInsightsStay

SPECIFICATION FairSpec
CONSTANTS
  Builds = {"b1"}
  Requests = {"r1", "r2"}
  Spellings <- MCSpellings
  Secrets = {"x", "y"}
  Helped <- MCHelped
  Stores <- MCStores
  Configs <- MCConfigs
  Nobody = "nobody"
  MaxChanges = 1
  MaxTraffic = 3
INVARIANTS ExplicitWins OneAnswer FreshPerBuild SamePrecedence ReturnsWhole AuthInv
PROPERTIES RunReturns

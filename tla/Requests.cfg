SPECIFICATION MCSpec
CONSTANTS
  r1 = r1
  r2 = r2
  r3 = r3
  s0 = s0
  e1 = e1
  Requests = {r1, r2, r3}
  Seeds = {s0}
  Token <- MCToken
  Resource = "connector"
  Origins = {"console"}
  Hosts = {}
  RequiredScopes = {"mcp_read"}
  Sites = {"main", "blog", "dev"}
  SiteConfig <- MCSiteConfig
  DefaultSite = "main"
  GrantTable <- MCGrants
  MaxSessions = 1
  MaxFlights = 3
  MaxPerPrincipal = 2
  MaxChained = 2
  ChainWindow = 3
  OkTtl = 2
  FailTtl = 0
  ProbeTime = 2
  MaxTime = 5
  MaxTurns = 2
  Scenarios <- MCScenarios
  Bundles <- MCBundles
  DeniedBundles = {"d"}
  PageSize = 1
  SampleSize = 2
  MaxLinks = 1
  NewRow = "n"
  Linker = "z"
  ReportScenes <- MCReportScenes
  Exchanges = {e1}
  Ways <- MCWays
  Launches <- MCLaunches
  CacheTime = 3
  ProbeTimeout = 2
  EndTime = 8
INVARIANTS NeverHandedToClosing SessionsBounded KillStopsWrites EvidenceIsFresh WrittenSiteAllowsIt ReportIsTrue ServesOnlyAsAllowed OperatorsAreToldTheTruth
CHECK_DEADLOCK FALSE

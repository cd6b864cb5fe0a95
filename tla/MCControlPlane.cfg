SPECIFICATION MCSpec
CONSTANTS
  None = None
  Legacy = Legacy
  Nobody = Nobody
  Omitted = Omitted
  w1 = w1
  w2 = w2
  w3 = w3
  evProjects = {"p1", "p2"}
  evTriggers = {"t1", "t2"}
  evRevisions = {"r1", "r2"}
  evFires <- Fires
  evDeliveries = {"d1", "m1"}
  evManualDeliveries = {"m1"}
  evManualProject = "p1"
  evRequests = {w1, w2}
  evMaxSends = 2
  evMaxFailures = 1
  evMaxStops = 1
  evMaxChanges = 1
  coApps = {"a1", "a2"}
  coOrganizations = {"o1", "o2"}
  coExternals = {"e1"}
  coAttempts = {"t1", "t2"}
  coCallbacks = {w1, w2}
  coFlows = {"setup", "transition", "exclusive"}
  coMaxVersion = 2
  coMaxStarts = 3
  coMaxChanges = 1
  ghWorkers = {w1, w2}
  ghMaxEvents = 2
  ghMaxSends = 4
  ghMaxOutages = 1
  ghMaxDeaths = 1
  reDeployers = {w1, w2}
  reMaxCommits = 2
  reMaxRevisions = 3
  reMaxDecisions = 1
  daSockets = {w1, w2}
  daAsks = {"q1"}
  daMaxUpdates = 1
  daMaxWriteFailures = 1
  crClis = {"c1"}
  crKey = "key"
  crTokens = {w1, w2}
  crDaemons = {"d1", "d2"}
  loSections = {w1, w2, w3}
  loPoolSizes = {3}
  biSubscriptions = {"s1", "s2"}
  biPrices = {"p1"}
  biWorkers = {w1, w2}
  biFree = "free"
  biMaxSeats = 2
  biMaxChanges = 2
  biMaxFailures = 1
  biMaxRepeats = 1
  mePeople = {"a", "b", "c"}
  meRequests = {w1, w2}
  meInvitations = {"i1", "i2"}
  meFounder = "a"
  meInvitee <- Invitee
  meSeats = 2
  meMaxReads = 3
  seClaims = {"c1", "c2"}
  seStarts = {w1, w2}
  sePeople = {"p"}
  sePreserved = {"old"}
  roAccounts = {"e1", "e2"}
  roThings = {"r1", "r2"}
  roNames = {"n1", "n2"}
  roMaxIds = 2
  roMaxChanges = 1
  roMaxDeploys = 2
  roMaxRollbacks = 1
  liProjects = {"p"}
  liStates = {"s", "t"}
  liLabels = {"l"}
  liMaxEvents = 2
  liMaxDeliveries = 2
  tmHubs = {w1, w2}
  tmOrder <- Order
  tmNames <- Names
  tmContents <- Contents
  tmMaxWrites = 2
  tmMaxCrashes = 1
  soEvents = {w1, w2}
  soMaxConnections = 2
  soMaxFrames = 3
  soMaxFailures = 1
  soMaxChanges = 2
  enKeys = {"seats", "executions"}
  enLimits = {0, 1, 9}
  enUnlimited = 9
  enWriters = {w1, w2}
  enCreators = {"c1", "c2"}
  enMaxChanges = 2
  enMonths = 2
  enMaxCreated = 2
  toHubs = {"h1", "h2"}
  toRequesters = {"a", "b", "c"}
  toHubOf <- HubOf
  toMaxGrants = 2
  toMaxTokens = 3
  toMaxFaults = 1
  suIdle = 2
  suHard = 3
  suMaxTime = 3
  suMaxEvents = 2
  hpProcesses = {w1, w2}
  hpPids = {1, 2, 3}
  hpMaxStarts = 2
SYMMETRY Symmetry
INVARIANTS
  TypeOK
  DeliveriesAreKept
  BindingsAreProven
  MirrorsConverge
  OrganizationsAreWhole
  RoutesAreLive
  DaemonsAreWatched
  CredentialsEnd
  WaitsAreOrdered
PROPERTIES
  TenantsAreKept
  DeploymentsGoForward
  PermissionsAreCurrent
CHECK_DEADLOCK FALSE

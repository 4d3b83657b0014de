SPECIFICATION Spec
CONSTANTS
  Parts = {"service", "form", "code", "store", "trip", "records"}
  T1 = T1
  T2 = T2
  A = A
  B = B
  None = None
  Ids = {"i"}
  Workspaces = {"A", "B"}
  NoRoot = "none"
  MaxVersion = 2
  MaxOpens = 3
  MaxFaults = 1
  Visits <- VisitsDef
  TicksPerHour = 1
  HoursPerDay = 2
  HourCap = 1
  DayCap = 2
  HealthCap = 1
  MaxTime = 1
  Languages = {"zod", "typescript"}
  Default = "zod"
  NoLanguage = "none"
  MaxRevision = 1
  MaxQuestions = 2
  Targets = {T1, T2}
  Namespaces = {A, B}
  Needs <- NeedsDef
  MaxAttempts = 2
  Outcomes = {"loaded", "fallback", "failed"}
  MaxTextEdits = 1
  MaxSelects = 2
  Count = 2
  Attributes <- AttributesDef
  Opaque = {2}
  MaxEdits = 3
  MaxBackground = 1
  MaxMisparses = 1
  WorkspaceIds = {"A", "B"}
  NoWorkspace = "none"
  Bundles = {"cdm", "fpml"}
  Depends <- DependsDef
  MaxRestores = 2
INVARIANTS TypeOK WithinBudget SessionsAreEarned ShownIsCurrent GivesUpOnlyWhenSpent CacheIsOfItsVersion CodeIsOfItsSource InstancesStayHome ErrorsAreOfTheData SettledIsParsed BindingsAreOwn
PROPERTIES AtomicBudgetSpec EveryWaitEnds 
CHECK_DEADLOCK FALSE

SPECIFICATION Spec
CONSTANTS
    d1 = d1
    d2 = d2
    h1 = h1
    h2 = h2
    f1 = f1
    i1 = i1
    i2 = i2
    None = None
    MaxUpsets = 1
    ReportFeeds <- MCReportFeeds
    Handlers = {d1, d2}
    Sla = 1
    MaxOperations = 1
    WorkflowIncidents = 3
    WorkflowNow = 2
    EventFeeds <- MCEventFeeds
    BatchSize = 2
    FailedThreshold = 2
    FailedWindow = 1
    RetryThreshold = 2
    RetryPercent = 50
    RetryWindow = 1
    MinSamples = 1
    DriftRatio = 2
    DriftDelta = 1
    DriftLookback = 2
    StuckAge = 2
    AnalysisNow = 3
    Choices <- MCChoices
    Notify = 1
    Escalation = 1
    Cooldown = 2
    CooldownAge = 0
    AnomalyIncidents = 2
    AnomalyNow = 2
    Histories <- MCHistories
    Bursts <- MCBursts
    Scenarios = {"webhook-failure", "retry-storm", "latency-spike", "duplicate-webhook"}
    Lookback = 3
    Watches <- MCWatches
    Start = 3
    MetricsNow = 6
    MaxBursts = 2
    Kinds <- MCKinds
    Pasts <- MCPasts
    Reports <- MCReports
    Now = 3
    Fresh = 0
    Hour = 1
    Delay = 1
    FailingPercent = 20
    FailingCount = 10
    IncidentIds = {i1, i2}
    MaxChanges = 1
SYMMETRY Symmetric
INVARIANTS TypeOK IncidentsFollowWorkflow AnalysesFollowEvents TriggersAreEarned AnomaliesAreTracked 
CHECK_DEADLOCK FALSE

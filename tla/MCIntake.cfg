SPECIFICATION Spec
CONSTANTS
    p1 = p1
    p2 = p2
    h1 = h1
    h2 = h2
    q1 = q1
    q2 = q2
    i1 = i1
    i2 = i2
    d1 = d1
    d2 = d2
    d3 = d3
    d4 = d4
    d5 = d5
    a1 = a1
    a2 = a2
    NoRequest = NoRequest
    None = None
    Procs = {p1, p2}
    Modes = {"required", "optional", "unset"}
    Quota = 1
    Window = 1
    PerSecond = 2
    Backoff = 1
    MaxCalls = 3
    RedisFaults = 2
    Requests = {q1, q2}
    Fingerprint <- MCFingerprint
    Signature <- MCSignature
    Handlers = {h1, h2}
    KeyTTL = 1
    MaxNow = 2
    QueueFaults = 2
    Integrations = {i1, i2}
    HookOf <- MCHook
    ScopeOf <- MCScope
    FirstSecret <- MCFirstSecret
    LastSecret = 2
    Deliveries = {d1, d2, d3, d4, d5}
    Sent <- MCSent
    Attempts = {a1, a2}
    MaxChanges = 1
    WebhookFaults = 1
SYMMETRY Symmetric
INVARIANTS TypeOK RefusalsAreDeserved AnsweredCallsExpire AcceptedIsKeptOnce DuplicatesWereSeen EventsStayWithTheirOwner
CHECK_DEADLOCK FALSE

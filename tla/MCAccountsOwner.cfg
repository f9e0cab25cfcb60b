SPECIFICATION Spec
CONSTANTS
    r1 = r1
    r2 = r2
    l1 = l1
    i1 = i1
    e1 = e1
    e2 = e2
    u1 = u1
    u2 = u2
    w1 = w1
    g1 = g1
    c1 = c1
    p1 = p1
    b1 = b1
    None = None
    Requests = {r1, r2}
    Tokens = {1, 2, 3}
    Links = {l1}
    MaxEpoch = 2
    Ips = {i1}
    Emails = {e1, e2}
    TenantsOf <- MCTenantsOf
    MaxIp = 2
    MaxEmail = 1
    Users = {u1, u2}
    Invited = {u1}
    Invites = {1, 2}
    PerEmail = 2
    Roles = {"owner", "admin"}
    Workflows = {w1}
    Hooks = {g1}
    Trial = 1
    MaxNow = 2
    MaxChanges = 1
    Tenants = {"t1", "t2"}
    WorkflowOf <- MCWorkflowOf
    ApiKeys = {1, 2}
    Channels = {c1}
    Policies = {p1}
    Browsers = {b1}
    MaxUpsets = 1
SYMMETRY Symmetric
INVARIANT AnOwnerRemains
CHECK_DEADLOCK FALSE

SPECIFICATION Spec
CONSTANTS
    sv1 = sv1  sv2 = sv2  u1 = u1  u2 = u2  u3 = u3  t1 = t1  t2 = t2
    a1 = a1  a2 = a2  dept = dept  title = title  v1 = v1  v2 = v2
    q1 = q1  q2 = q2  x1 = x1  x2 = x2  x3 = x3
    Tenant = {t1, t2}
    Attr = {dept, title}
    Value = {v1, v2}
    TenantOf <- MCTenantOf
    UrlsOf <- MCUrlsOf
    Server = {sv1}
    Url = {u1, u2}
    Address = {a1}
    Req = {q1}
    Conditions <- MCConditions
    Action = {}
    ActionRow <- MCActionRow
    ServerRow <- MCRowCached
    Answer <- MCOne
    MaxTime = 3
    MaxMails = 3
    MaxParts = 0
    MaxChanges = 0
INVARIANT NoValueOutlivesCache

SPECIFICATION FairSpec
CONSTANTS
    sv1 = sv1  sv2 = sv2  u1 = u1  u2 = u2  u3 = u3  t1 = t1  t2 = t2
    a1 = a1  a2 = a2  dept = dept  title = title  v1 = v1  v2 = v2
    q1 = q1  q2 = q2  x1 = x1  x2 = x2  x3 = x3
    Tenant = {t1, t2}
    Attr = {dept, title}
    Value = {v1, v2}
    TenantOf <- MCTenantOf
    UrlsOf <- MCUrlsOf
    Server = {sv1, sv2}
    Url = {u1, u2, u3}
    Address = {a1}
    Req = {q2}
    Conditions <- MCConditions
    Action = {x3}
    ActionRow <- MCActionRow
    ServerRow <- MCServerRow
    Answer <- MCSeveral
    MaxTime = 0
    MaxMails = 1
    MaxParts = 1
    MaxChanges = 1
INVARIANTS GroundedVerdicts ReachableSenderFound
PROPERTY LookupEnds

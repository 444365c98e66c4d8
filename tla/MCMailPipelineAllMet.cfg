SPECIFICATION Spec
CONSTANTS
    r1 = r1  r2 = r2  r3 = r3  A = A  B = B  act1 = act1  act2 = act2
    ip1 = ip1  ip2 = ip2  s1 = s1  s2 = s2  d1 = d1  d2 = d2  h1 = h1  c1 = c1
    Req = {r1, r2, r3}
    Rule = {A, B}
    Action = {act1, act2}
    Ip = {ip1, ip2}
    Sender = {s1, s2}
    Recipient = {d1, d2}
    Line = {h1}
    Chunk = {c1}
    ReqRow <- MCAllMetReqRow
    RuleRow <- MCRuleRow
    MaxMails = 1
    MaxRcpts = 2
    MaxHeaders = 1
    MaxChunks = 1
    MaxEdits = 0
INVARIANT AllRequirementsMet

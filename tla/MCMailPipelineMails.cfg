SPECIFICATION Spec
CONSTANTS
    r1 = r1  r2 = r2  r3 = r3  A = A  B = B  act1 = act1  act2 = act2
    ip1 = ip1  ip2 = ip2  s1 = s1  s2 = s2  d1 = d1  d2 = d2  h1 = h1  c1 = c1
    Req = {r1, r2}
    Rule = {A, B}
    Action = {act1, act2}
    Ip = {ip1}
    Sender = {s1, s2}
    Recipient = {d1, d2}
    Line = {h1}
    Chunk = {c1}
    ReqRow <- MCMailsReqRow
    RuleRow <- MCMailsRuleRow
    MaxMails = 2
    MaxRcpts = 2
    MaxHeaders = 0
    MaxChunks = 0
    MaxEdits = 1
INVARIANTS TypeOK DecisionIsDeclarative LogDescribesMail LogTellsDelivery IdleHoldsNoConnection
SYMMETRY MCSymmetry

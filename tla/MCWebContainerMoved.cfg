SPECIFICATION Spec
CONSTANTS
    Slug = {"acme", "globex"}
    Domain = {"x", "y", "z"}
    ServerName = {"main", "spare"}
    Url <- MCUrl
    Env <- MCMoved
    NoTenant = "none"
    MaxEdits = 0
    MaxCrashes = 0
    Extra = {}
    SsoUser = {"alice"}
    SsoGroup = {"sa"}
    Request = {r1, r2}
    MaxChanges = 0
    MaxKills = 0
    Worker = {"w1", "w2"}
    Pem = {"pem1", "pem2"}
    Upload = {"u1", "u2", "u3"}
    Stem = {"logo", "long"}
    Long = {"long"}
    MaxTries = 3
INVARIANT WellFormedBoots
CHECK_DEADLOCK FALSE

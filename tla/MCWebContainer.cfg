SPECIFICATION Spec
CONSTANTS
    Slug = {"acme", "globex"}
    Domain = {"x", "y"}
    ServerName = {"main", "spare"}
    Url <- MCUrl
    Env <- MCEnv
    NoTenant = "none"
    MaxEdits = 2
    MaxCrashes = 1
    Extra = {}
    SsoUser = {"alice"}
    SsoGroup = {"sa"}
    Request = {r1, r2}
    MaxChanges = 2
    MaxKills = 1
    Worker = {"w1", "w2"}
    Pem = {"pem1", "pem2"}
    Upload = {"u1", "u2", "u3"}
    Stem = {"logo", "long"}
    Long = {"long"}
    MaxTries = 3
SYMMETRY Requests
CONSTRAINT FewTroubles
INVARIANTS SyncTypeOK EnvAuthoritative PruneComplete FailsForCause
INVARIANTS AccessTypeOK SignInSettles MadeInFull CaFileWhole
PROPERTIES Idempotent ManualLeftAlone KeptStaysServed NoImageTakenOver
CHECK_DEADLOCK FALSE

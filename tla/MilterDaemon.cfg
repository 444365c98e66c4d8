SPECIFICATION Spec
CONSTANTS
    Req = {r1}
    Child = {p1}
    CONFIG_TTL = 2
    Hour = 3
    Retention = 1
    MaxTime = 7
    MaxEdits = 2
    MaxLog = 1
INVARIANTS RetentionApplied FreshPrefilter KeepsLastGood OwnConnection
PROPERTY PruneAtMostHourly

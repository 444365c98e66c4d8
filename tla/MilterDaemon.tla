---------------------------- MODULE MilterDaemon ----------------------------
(***************************************************************************)
(* The milter as a service (disclaimr.py): one parent process that accepts *)
(* connections and forks a child for each, and the two things it does for  *)
(* all of them before a fork, rebuilding the sender-IP prefilter once      *)
(* CONFIG_TTL has expired and applying the retention of the mail log.      *)
(*                                                                         *)
(* Time passes and administrators edit requirements between any two steps, *)
(* the database may fail in each of them, the parent may be stopped and    *)
(* started again.  What a child does with its mails is MailPipeline's; here *)
(* a child holds the prefilter it was forked with, uses the database and   *)
(* writes log entries.                                                     *)
(***************************************************************************)
EXTENDS Integers, FiniteSets

CONSTANTS
    Req,        \* primary keys of the requirement table
    Child,      \* child processes (bound)
    CONFIG_TTL, \* seconds a prefilter is reused
    Hour,       \* seconds between two prunings
    Retention,  \* MAIL_LOG_RETENTION_DAYS, 0 keeps everything
    MaxTime,    \* seconds (bound)
    MaxEdits,   \* edits of the requirement table (bound)
    MaxLog      \* mail log entries at a time (bound)

ASSUME TimeAssumption ==
    /\ CONFIG_TTL \in Nat
    /\ Hour \in Nat \ {0}
    /\ Retention \in Nat
    /\ MaxTime \in Nat
    /\ MaxEdits \in Nat
    /\ MaxLog \in Nat

\* What the prefilter makes of a requirement: "on" when it and an action of
\* its rule are enabled, "invalid" when its network cannot be parsed.
Row == {"on", "off", "invalid"}

\* None, the time of something that has not happened.
Never == -1

VARIABLES
    now,            \* time.monotonic()
    \* the database
    table,          \* requirement -> Row
    edits,          \* edits made so far
    log,            \* creation times of the mail log entries
    \* the parent process
    phase,          \* where it is
    forced,         \* "force" of the refresh in progress
    startedAt,      \* "now" of the refresh in progress
    configuration,  \* requirements in the prefilter
    builtAt,        \* _configuration_built_at
    prunedAt,       \* _logs_pruned_at
    dbOpen,         \* the parent holds a database connection
    \* the children
    child,          \* process -> prefilter, database connection, mail
    \* history, for the properties only
    changedAt,      \* requirement -> time of its last edit
    acceptedAt,     \* time the last connection was accepted
    goodAt,         \* start of the last refresh whose build succeeded
    buildFailed,    \* the last build failed
    pruneFailed,    \* the last pruning failed
    triedAt         \* time pruning was last tried since the parent started

dbVars     == <<table, edits, log>>
parentVars == <<phase, forced, startedAt, configuration, builtAt, prunedAt, dbOpen>>
history    == <<changedAt, acceptedAt, goodAt, buildFailed, pruneFailed, triedAt>>

vars == <<now, dbVars, parentVars, child, history>>

NoProcess == [up |-> FALSE, configuration |-> {}, db |-> "none", busy |-> FALSE]

-----------------------------------------------------------------------------
(* refresh_configuration() and what it calls. *)

\* The prefilter needs no rebuilding yet.
FreshEnough == now - builtAt < CONFIG_TTL

\* build_configuration(): a requirement whose network is invalid is skipped,
\* the others stay.
BuildConfiguration == {r \in Req : table[r] = "on"}

\* Faulty variant, for mutation: nothing is left of the previous prefilter.
EmptyOnFailure == {}

\* "keeping the previous one"
OnBuildFailure == configuration

\* Faulty variant, for mutation: pruned once is pruned for good.
PrunedOnce == ~forced /\ prunedAt # Never

\* _prune_mail_logs() has nothing to do yet.
PrunedRecently == ~forced /\ prunedAt # Never /\ startedAt - prunedAt < Hour

\* Faulty variant, for mutation: only a pruning that worked counts.
CountSuccess(ok) == IF ok THEN startedAt ELSE prunedAt

\* _logs_pruned_at is set before the pruning is tried.
CountAttempt(ok) == startedAt

\* MailLog.prune()
Kept == {t \in log : Retention = 0 \/ t >= now - Retention}

\* Faulty variant, for mutation: the connection is closed on success only.
CloseOnSuccess == IF buildFailed THEN dbOpen ELSE FALSE

\* connections.close_all(), whatever happened before.
AfterCloseAll == FALSE

\* Faulty variant, for mutation: the age counts from the end of the refresh.
AgeFromEnd == now

\* The age of the prefilter counts from before the query.
AgeFromStart == startedAt

-----------------------------------------------------------------------------

Init ==
    /\ now = 0
    /\ table \in [Req -> Row]
    /\ edits = 0
    /\ log = {}
    /\ phase = "down"
    /\ forced = FALSE
    /\ startedAt = 0
    /\ configuration = {}
    /\ builtAt = 0
    /\ prunedAt = Never
    /\ dbOpen = FALSE
    /\ child = [c \in Child |-> NoProcess]
    /\ changedAt = [r \in Req |-> Never]
    /\ acceptedAt = 0
    /\ goodAt = Never
    /\ buildFailed = FALSE
    /\ pruneFailed = FALSE
    /\ triedAt = Never

Tick ==
    /\ now < MaxTime
    /\ now' = now + 1
    /\ UNCHANGED <<dbVars, parentVars, child, history>>

\* An administrator saves a requirement, its rule or an action of it.
Edit ==
    /\ edits < MaxEdits
    /\ edits' = edits + 1
    /\ \E r \in Req, row \in Row :
          /\ row # table[r]
          /\ table' = [table EXCEPT ![r] = row]
          /\ changedAt' = [changedAt EXCEPT ![r] = now]
    /\ UNCHANGED <<now, log, parentVars, child, acceptedAt, goodAt, buildFailed,
                   pruneFailed, triedAt>>

\* The parent process ends, its module variables with it.
Exit ==
    /\ phase' = "down"
    /\ forced' = FALSE
    /\ startedAt' = 0
    /\ configuration' = {}
    /\ builtAt' = 0
    /\ prunedAt' = Never
    /\ dbOpen' = FALSE
    /\ goodAt' = Never
    /\ buildFailed' = FALSE
    /\ pruneFailed' = FALSE
    /\ triedAt' = Never
    /\ acceptedAt' = 0
    /\ UNCHANGED <<now, dbVars, child, changedAt>>

\* main(): refresh_configuration(force=True) begins.
Start ==
    /\ phase = "down"
    /\ phase' = "building"
    /\ forced' = TRUE
    /\ startedAt' = now
    /\ UNCHANGED <<now, dbVars, configuration, builtAt, prunedAt, dbOpen, child, history>>

\* DisclaimrMilter.__init__(), in the parent: the refresh begins or is skipped.
Accept ==
    /\ phase = "listening"
    /\ \E c \in Child : ~child[c].up
    /\ acceptedAt' = now
    /\ IF FreshEnough
       THEN /\ phase' = "forking"
            /\ UNCHANGED <<forced, startedAt>>
       ELSE /\ phase' = "building"
            /\ forced' = FALSE
            /\ startedAt' = now
    /\ UNCHANGED <<now, dbVars, configuration, builtAt, prunedAt, dbOpen, child,
                   changedAt, goodAt, buildFailed, pruneFailed, triedAt>>

\* build_configuration() returns ...
Build ==
    /\ phase = "building"
    /\ phase' = "pruning"
    /\ configuration' = BuildConfiguration
    /\ dbOpen' = TRUE
    /\ goodAt' = startedAt
    /\ buildFailed' = FALSE
    /\ UNCHANGED <<now, dbVars, forced, startedAt, builtAt, prunedAt, child, changedAt,
                   acceptedAt, pruneFailed, triedAt>>

\* ... or raises, before or after it has connected; nothing is pruned then.
BuildFails ==
    /\ phase = "building"
    /\ phase' = "closing"
    /\ configuration' = OnBuildFailure
    /\ dbOpen' \in BOOLEAN
    /\ buildFailed' = TRUE
    /\ UNCHANGED <<now, dbVars, forced, startedAt, builtAt, prunedAt, child, changedAt,
                   acceptedAt, goodAt, pruneFailed, triedAt>>

\* _prune_mail_logs(), whose own failures never reach the refresh.
Prune ==
    /\ phase = "pruning"
    /\ phase' = "closing"
    /\ IF PrunedRecently
       THEN UNCHANGED <<log, prunedAt, pruneFailed, triedAt>>
       ELSE \E ok \in BOOLEAN :
                /\ prunedAt' = CountAttempt(ok)
                /\ triedAt' = startedAt
                /\ pruneFailed' = ~ok
                /\ log' = IF ok THEN Kept ELSE log
    /\ UNCHANGED <<now, table, edits, forced, startedAt, configuration, builtAt, dbOpen,
                   child, changedAt, acceptedAt, goodAt, buildFailed>>

\* The finally clause, then the fork or, at startup, the accepting loop.
EndRefresh ==
    /\ phase = "closing"
    /\ ~(forced /\ buildFailed)
    /\ phase' = IF forced THEN "listening" ELSE "forking"
    /\ builtAt' = AgeFromStart
    /\ dbOpen' = AfterCloseAll
    /\ forced' = FALSE
    /\ startedAt' = 0
    /\ UNCHANGED <<now, dbVars, configuration, prunedAt, child, history>>

\* At startup a failed build ends the process.
FailToStart ==
    /\ phase = "closing"
    /\ forced
    /\ buildFailed
    /\ Exit

\* The child starts as a copy of the parent: prefilter, open sockets and all.
Fork ==
    /\ phase = "forking"
    /\ phase' = "listening"
    /\ acceptedAt' = 0
    /\ \E c \in Child :
          /\ ~child[c].up
          /\ child' = [child EXCEPT ![c] =
                [up |-> TRUE, configuration |-> configuration,
                 db |-> IF dbOpen THEN "inherited" ELSE "none", busy |-> FALSE]]
    /\ UNCHANGED <<now, dbVars, forced, startedAt, configuration, builtAt, prunedAt,
                   dbOpen, changedAt, goodAt, buildFailed, pruneFailed, triedAt>>

\* A signal, a crash or the host stops the parent; its children go on.
Stop ==
    /\ phase # "down"
    /\ Exit

WithMail(p) ==
    [p EXCEPT !.busy = TRUE,
              !.db = IF p.db = "none" /\ p.configuration # {} THEN "own" ELSE p.db]

WithoutMail(p) == [p EXCEPT !.busy = FALSE, !.db = "none"]

\* A child takes a mail, and uses the database if the prefilter lets it.
ChildMail ==
    /\ \E c \in Child :
          /\ child[c].up
          /\ ~child[c].busy
          /\ child' = [child EXCEPT ![c] = WithMail(child[c])]
    /\ UNCHANGED <<now, dbVars, parentVars, history>>

\* The end of the mail: the log entry, or a swallowed failure to write it,
\* then connections.close_all().
ChildLog ==
    /\ \E c \in Child :
          /\ child[c].busy
          /\ child' = [child EXCEPT ![c] = WithoutMail(child[c])]
    /\ \/ Cardinality(log) < MaxLog /\ log' = log \cup {now}
       \/ log' = log
    /\ UNCHANGED <<now, table, edits, parentVars, history>>

\* The connection ends, and the child with it.
ChildExit ==
    /\ \E c \in Child : child[c].up /\ child' = [child EXCEPT ![c] = NoProcess]
    /\ UNCHANGED <<now, dbVars, parentVars, history>>

Next ==
    \/ Tick \/ Edit
    \/ Start \/ Accept \/ Build \/ BuildFails \/ Prune \/ EndRefresh
    \/ FailToStart \/ Fork \/ Stop
    \/ ChildMail \/ ChildLog \/ ChildExit

Spec == Init /\ [][Next]_vars

-----------------------------------------------------------------------------
(* Properties. *)

Phases == {"down", "building", "pruning", "closing", "listening", "forking"}

Processes == [up : BOOLEAN, configuration : SUBSET Req,
              db : {"none", "own", "inherited"}, busy : BOOLEAN]

\* The types of the variables: times are in the past, or Never.
TypeOK ==
    /\ now \in Nat
    /\ table \in [Req -> Row]
    /\ edits \in Nat
    /\ log \in SUBSET Nat
    /\ phase \in Phases
    /\ forced \in BOOLEAN
    /\ startedAt \in Nat
    /\ configuration \in SUBSET Req
    /\ builtAt \in Nat
    /\ prunedAt \in Nat \cup {Never}
    /\ dbOpen \in BOOLEAN
    /\ child \in [Child -> Processes]
    /\ changedAt \in [Req -> Nat \cup {Never}]
    /\ acceptedAt \in Nat
    /\ goodAt \in Nat \cup {Never}
    /\ buildFailed \in BOOLEAN
    /\ pruneFailed \in BOOLEAN
    /\ triedAt \in Nat \cup {Never}

\* r is in the prefilter exactly when its row wants it there.
Follows(r, prefilter) == r \in prefilter <=> table[r] = "on"

\* The row of r was last edited CONFIG_TTL before t, or earlier.
SettledAt(r, t) == changedAt[r] < t /\ changedAt[r] + CONFIG_TTL <= t

\* A child is forked with a prefilter that knows every edit made CONFIG_TTL
\* before its connection was accepted, also those made while the prefilter
\* was being built, unless the last build failed.
FreshPrefilter ==
    phase = "forking" /\ ~buildFailed =>
        \A r \in Req : SettledAt(r, acceptedAt) => Follows(r, configuration)

\* Failed builds in a row do not lose the prefilter: it knows every edit made
\* before the last build that succeeded.
KeepsLastGood ==
    phase \in {"listening", "forking"} =>
        \A r \in Req : changedAt[r] < goodAt => Follows(r, configuration)

\* No child uses a connection of its parent: it has been closed before every
\* fork, whatever failed in the refresh.
OwnConnection == \A c \in Child : child[c].db # "inherited"

\* While connections come in, no log entry outlives its retention by more than
\* one pruning interval and one refresh, unless the database failed.
RetentionApplied ==
    phase = "forking" /\ ~buildFailed /\ ~pruneFailed /\ Retention > 0 =>
        \A t \in log : acceptedAt < t + Retention + Hour + CONFIG_TTL

\* The retention is applied at startup and then at most once an hour, also
\* when it keeps failing.
PruneAtMostHourly ==
    [][triedAt # triedAt' /\ Never \notin {triedAt, triedAt'} => triedAt' - triedAt >= Hour]_vars

\* What the documentation says of CONFIG_TTL, taken for every mail: whenever
\* one may begin, a requirement enabled that long ago is not missed.
MailsFollowTable ==
    \A c \in Child : child[c].up /\ ~child[c].busy /\ ~buildFailed =>
        \A r \in Req : SettledAt(r, now) /\ table[r] = "on" => r \in child[c].configuration
=============================================================================

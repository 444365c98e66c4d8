------------------------- MODULE MilterDaemonProofs -------------------------
(***************************************************************************)
(* Proofs about MilterDaemon, for every number of requirements and         *)
(* children, every TTL, retention and pruning interval, and with no bound  *)
(* on time, edits or log entries that matters (they only appear in guards). *)
(*                                                                         *)
(* The invariant has four parts, each inductive given the type invariant   *)
(* and the parts before it: no time lies in the future (Past), the parent  *)
(* holds a connection only inside a refresh (Connections), what the        *)
(* prefilter knows and how old it is (Prefilter), and how old the last     *)
(* pruning and the entries it left are (Pruning).                          *)
(***************************************************************************)
EXTENDS MilterDaemon, TLAPS

-----------------------------------------------------------------------------
(* The type invariant. *)

\* A process that takes or ends a mail is a process.
LEMMA BusyTypes == ASSUME NEW p \in Processes, NEW b \in BOOLEAN
                   PROVE  [p EXCEPT !.busy = b] \in Processes
BY DEF Processes

\* The same for the connection of the process.
LEMMA DbTypes == ASSUME NEW p \in Processes, NEW d \in {"none", "own", "inherited"}
                 PROVE  [p EXCEPT !.db = d] \in Processes /\ [p EXCEPT !.db = d].db = d
BY DEF Processes

\* A mail, taken or done, leaves a process that inherited nothing such a one.
LEMMA MailTypes ==
    ASSUME NEW p \in Processes
    PROVE  /\ WithMail(p) \in Processes /\ (p.db # "inherited" => WithMail(p).db # "inherited")
           /\ WithoutMail(p) \in Processes /\ WithoutMail(p).db # "inherited"
<1> DEFINE d == IF p.db = "none" /\ p.configuration # {} THEN "own" ELSE p.db
<1>1. /\ d \in {"none", "own", "inherited"}
      /\ p.db # "inherited" => d # "inherited"
  BY DEF Processes
<1> HIDE DEF d
<1>2. /\ [[p EXCEPT !.busy = TRUE] EXCEPT !.db = d] \in Processes
      /\ [[p EXCEPT !.busy = TRUE] EXCEPT !.db = d].db = d
  <2>1. [p EXCEPT !.busy = TRUE] \in Processes
    BY BusyTypes
  <2>2. QED
    BY <1>1, <2>1, DbTypes
<1>3. /\ [[p EXCEPT !.busy = FALSE] EXCEPT !.db = "none"] \in Processes
      /\ [[p EXCEPT !.busy = FALSE] EXCEPT !.db = "none"].db = "none"
  BY BusyTypes, DbTypes
<1>4. /\ WithMail(p) = [[p EXCEPT !.busy = TRUE] EXCEPT !.db = d]
      /\ WithoutMail(p) = [[p EXCEPT !.busy = FALSE] EXCEPT !.db = "none"]
  BY DEF WithMail, WithoutMail, d
<1>5. QED
  BY <1>1, <1>2, <1>3, <1>4

\* What a child does to a mail changes nothing of its parent's.
LEMMA ChildSteps ==
    ASSUME ChildMail \/ ChildExit
    PROVE  UNCHANGED <<now, table, edits, log, phase, forced, startedAt, configuration,
                       builtAt, prunedAt, dbOpen, changedAt, acceptedAt, goodAt,
                       buildFailed, pruneFailed, triedAt>>
BY DEF ChildMail, ChildExit, dbVars, parentVars, history

\* The end of a mail adds at most an entry of now to the log.
LEMMA LogSteps ==
    ASSUME ChildLog
    PROVE  /\ log' \subseteq log \cup {now}
           /\ UNCHANGED <<now, table, edits, phase, forced, startedAt, configuration,
                          builtAt, prunedAt, dbOpen, changedAt, acceptedAt, goodAt,
                          buildFailed, pruneFailed, triedAt>>
BY DEF ChildLog, parentVars, history

\* No step takes a variable out of its type.
LEMMA TypeStep == ASSUME TypeOK, [Next]_vars PROVE TypeOK'
<1> USE TimeAssumption DEF TypeOK, Never, Phases, Row
<1>1. CASE Tick
  BY <1>1 DEF Tick, dbVars, parentVars, history
<1>2. CASE Edit
  BY <1>2 DEF Edit, parentVars
<1>3. CASE Start
  BY <1>3 DEF Start, dbVars, history
<1>4. CASE Accept
  BY <1>4 DEF Accept, dbVars
<1>5. CASE Build
  BY <1>5 DEF Build, BuildConfiguration, dbVars
<1>6. CASE BuildFails
  BY <1>6 DEF BuildFails, OnBuildFailure, dbVars
<1>7. CASE Prune
  BY <1>7 DEF Prune, CountAttempt, Kept
<1>8. CASE EndRefresh
  BY <1>8 DEF EndRefresh, AgeFromStart, AfterCloseAll, dbVars, history
<1>9. CASE Exit
  BY <1>9 DEF Exit, dbVars
<1>10. CASE Fork
  BY <1>10 DEF Fork, dbVars, Processes
<1>11. CASE ChildMail
  <2>1. child' \in [Child -> Processes]
    BY <1>11, MailTypes DEF ChildMail
  <2>2. QED
    BY <1>11, <2>1 DEF ChildMail, dbVars, parentVars, history
<1>12. CASE ChildLog
  <2>1. child' \in [Child -> Processes]
    BY <1>12, MailTypes DEF ChildLog
  <2>2. QED
    BY <1>12, <2>1 DEF ChildLog, parentVars, history
<1>13. CASE ChildExit
  <2>1. NoProcess \in Processes
    BY DEF NoProcess, Processes
  <2>2. child' \in [Child -> Processes]
    BY <1>13, <2>1 DEF ChildExit
  <2>3. QED
    BY <1>13, <2>2, ChildSteps
<1>14. CASE UNCHANGED vars
  BY <1>14 DEF vars, dbVars, parentVars, history
<1>15. QED
  BY <1>1, <1>2, <1>3, <1>4, <1>5, <1>6, <1>7, <1>8, <1>9, <1>10, <1>11, <1>12, <1>13,
     <1>14 DEF Next, FailToStart, Stop

\* The types of the daemon's variables hold in every behaviour.
THEOREM TypeCorrect == Spec => []TypeOK
<1>1. Init => TypeOK
  <2>1. NoProcess \in Processes
    BY DEF NoProcess, Processes
  <2>2. Init => child \in [Child -> Processes] /\ changedAt \in [Req -> Nat \cup {Never}]
    BY <2>1 DEF Init
  <2>3. Init => /\ {now, edits, startedAt, builtAt, acceptedAt} \subseteq Nat
                /\ {prunedAt, goodAt, triedAt} \subseteq Nat \cup {Never}
                /\ log \in SUBSET Nat
    BY DEF Init
  <2>4. Init => /\ {forced, dbOpen, buildFailed, pruneFailed} \subseteq BOOLEAN
                /\ phase \in Phases
                /\ configuration \in SUBSET Req
    BY DEF Init, Phases
  <2>5. Init => table \in [Req -> Row]
    BY DEF Init
  <2>6. QED
    BY <2>2, <2>3, <2>4, <2>5 DEF TypeOK
<1>2. QED
  BY <1>1, TypeStep, PTL DEF Spec

-----------------------------------------------------------------------------
(* Database connections over the fork. *)

\* Outside of a refresh, and before its query, the parent holds no connection,
\* so no child was forked with one.
Connections ==
    /\ phase \in {"down", "building", "listening", "forking"} => ~dbOpen
    /\ OwnConnection

\* Every step keeps the connections apart.
LEMMA ConnectionsStep == ASSUME TypeOK, Connections, [Next]_vars PROVE Connections'
<1> USE DEF Connections, OwnConnection, TypeOK
<1>1. CASE Tick \/ Edit
  BY <1>1 DEF Tick, Edit, parentVars
<1>2. CASE Start \/ Accept \/ Build \/ BuildFails \/ Prune
  BY <1>2 DEF Start, Accept, Build, BuildFails, Prune
<1>3. CASE EndRefresh
  BY <1>3 DEF EndRefresh, AfterCloseAll
<1>4. CASE Exit
  BY <1>4 DEF Exit
<1>5. CASE Fork
  BY <1>5 DEF Fork, Processes
<1>6. CASE ChildMail \/ ChildLog
  <2>1. \A d \in Child : child'[d].db # "inherited"
    BY <1>6, MailTypes DEF ChildMail, ChildLog
  <2>2. QED
    BY <1>6, <2>1, ChildSteps DEF ChildLog, parentVars
<1>7. CASE ChildExit
  BY <1>7 DEF ChildExit, NoProcess, parentVars, Processes
<1>8. CASE UNCHANGED vars
  BY <1>8 DEF vars, parentVars
<1>9. QED
  BY <1>1, <1>2, <1>3, <1>4, <1>5, <1>6, <1>7, <1>8 DEF Next, FailToStart, Stop

\* No child ever uses a database connection of its parent, however its refreshes
\* failed: the connection is closed before every fork.
THEOREM ConnectionsCorrect == Spec => []OwnConnection
<1>1. Init => Connections
  BY DEF Init, Connections, OwnConnection, NoProcess
<1>2. Connections => OwnConnection
  BY DEF Connections
<1>3. QED
  BY <1>1, <1>2, TypeCorrect, ConnectionsStep, PTL DEF Spec

-----------------------------------------------------------------------------
(* No time lies in the future. *)

Past ==
    /\ startedAt <= now
    /\ builtAt <= now
    /\ prunedAt <= now
    /\ acceptedAt <= now
    /\ goodAt <= now
    /\ \A t \in log : t <= now
    /\ \A r \in Req : changedAt[r] <= now

\* Every step keeps the times in the past.
LEMMA PastStep == ASSUME TypeOK, Past, [Next]_vars PROVE Past'
<1> USE DEF Past, TypeOK, Never
<1>1. CASE Tick
  BY <1>1 DEF Tick, dbVars, parentVars, history
<1>2. CASE Edit
  BY <1>2 DEF Edit, parentVars
<1>3. CASE Start \/ Accept
  <2>1. CASE Start
    BY <2>1 DEF Start, dbVars, history
  <2>2. CASE Accept
    BY <2>2 DEF Accept, dbVars
  <2>3. QED
    BY <1>3, <2>1, <2>2
<1>4. CASE Build \/ BuildFails
  BY <1>4 DEF Build, BuildFails, dbVars
<1>5. CASE Prune
  BY <1>5 DEF Prune, CountAttempt, Kept
<1>6. CASE EndRefresh
  BY <1>6 DEF EndRefresh, AgeFromStart, dbVars, history
<1>7. CASE Exit
  BY <1>7 DEF Exit, dbVars
<1>8. CASE Fork
  BY <1>8 DEF Fork, dbVars
<1>9. CASE ChildMail \/ ChildExit
  BY <1>9, ChildSteps
<1>10. CASE ChildLog
  <2>1. UNCHANGED <<now, startedAt, builtAt, prunedAt, acceptedAt, goodAt, changedAt>>
    BY <1>10, LogSteps
  <2>2. log' \subseteq log \cup {now}
    BY <1>10, LogSteps
  <2>3. QED
    BY <2>1, <2>2
<1>11. CASE UNCHANGED vars
  BY <1>11 DEF vars, dbVars, parentVars, history
<1>12. QED
  BY <1>1, <1>2, <1>3, <1>4, <1>5, <1>6, <1>7, <1>8, <1>9, <1>10, <1>11 DEF Next, FailToStart, Stop

-----------------------------------------------------------------------------
(* What the prefilter knows, and how old it is. *)

Prefilter ==
    /\ \A r \in Req : changedAt[r] < goodAt => Follows(r, configuration)
    /\ phase = "pruning" => ~buildFailed
    /\ phase \in {"pruning", "closing"} /\ ~buildFailed => goodAt = startedAt
    /\ phase \in {"listening", "forking"} /\ ~buildFailed => goodAt = builtAt
    /\ phase \in {"building", "pruning", "closing"} /\ ~forced => acceptedAt = startedAt
    /\ phase = "forking" => acceptedAt = builtAt \/ acceptedAt - builtAt < CONFIG_TTL

\* Every step keeps the prefilter as good as its age says.
LEMMA PrefilterStep == ASSUME TypeOK, Past, Prefilter, [Next]_vars PROVE Prefilter'
<1> USE TimeAssumption DEF Prefilter, Past, Follows, TypeOK, Never
<1>1. CASE Tick
  BY <1>1 DEF Tick, dbVars, parentVars, history
<1>2. CASE Edit
  BY <1>2 DEF Edit, parentVars
<1>3. CASE Start
  BY <1>3 DEF Start, dbVars, history
<1>4. CASE Accept
  BY <1>4 DEF Accept, FreshEnough, dbVars
<1>5. CASE Build
  BY <1>5 DEF Build, BuildConfiguration, dbVars
<1>6. CASE BuildFails
  BY <1>6 DEF BuildFails, OnBuildFailure, dbVars
<1>7. CASE Prune
  BY <1>7 DEF Prune
<1>8. CASE EndRefresh
  BY <1>8 DEF EndRefresh, AgeFromStart, dbVars, history
<1>9. CASE Exit
  BY <1>9 DEF Exit, dbVars
<1>10. CASE Fork
  BY <1>10 DEF Fork, dbVars
<1>11. CASE ChildMail \/ ChildExit
  BY <1>11, ChildSteps
<1>12. CASE ChildLog
  BY <1>12 DEF ChildLog, parentVars, history
<1>13. CASE UNCHANGED vars
  BY <1>13 DEF vars, dbVars, parentVars, history
<1>14. QED
  BY <1>1, <1>2, <1>3, <1>4, <1>5, <1>6, <1>7, <1>8, <1>9, <1>10, <1>11, <1>12, <1>13
     DEF Next, FailToStart, Stop

\* Every state has the types, the past and the prefilter in order.
LEMMA PrefilterInvariant == Spec => [](TypeOK /\ Past /\ Prefilter)
<1>1. Init => Past /\ Prefilter
  BY DEF Init, Past, Prefilter, Follows, Never
<1>2. QED
  BY <1>1, TypeCorrect, PastStep, PrefilterStep, PTL DEF Spec

\* A child's prefilter is at most CONFIG_TTL behind the requirement table when its
\* connection is accepted, whatever is edited while the prefilter is built, unless
\* the last build failed.
THEOREM FreshCorrect == Spec => []FreshPrefilter
<1>1. TypeOK /\ Past /\ Prefilter => FreshPrefilter
  BY TimeAssumption DEF TypeOK, Past, Prefilter, FreshPrefilter, SettledAt, Never
<1>2. QED
  BY <1>1, PrefilterInvariant, PTL

\* However many builds fail in a row, the prefilter is that of the last one that
\* succeeded.
THEOREM LastGoodCorrect == Spec => []KeepsLastGood
<1>1. Prefilter => KeepsLastGood
  BY DEF Prefilter, KeepsLastGood
<1>2. QED
  BY <1>1, PrefilterInvariant, PTL

-----------------------------------------------------------------------------
(* How old the last pruning is, and the entries it left. *)

Pruning ==
    /\ triedAt = prunedAt
    /\ phase = "down" => prunedAt = Never
    /\ phase \in {"building", "pruning"} /\ forced => prunedAt = Never
    /\ phase = "closing" /\ ~buildFailed => prunedAt # Never /\ startedAt - prunedAt < Hour
    /\ phase \in {"listening", "forking"} /\ ~buildFailed =>
          prunedAt # Never /\ builtAt - prunedAt < Hour
    /\ ~pruneFailed /\ Retention > 0 => \A t \in log : t + Retention >= prunedAt

\* Every step keeps the pruning as recent as the refresh says.
LEMMA PruningStep == ASSUME TypeOK, Past, Prefilter, Pruning, [Next]_vars PROVE Pruning'
<1> USE TimeAssumption DEF Pruning, TypeOK, Never
<1>1. CASE Tick \/ Edit
  <2>1. UNCHANGED <<log, parentVars, triedAt, buildFailed, pruneFailed>>
    BY <1>1 DEF Tick, Edit, dbVars, history
  <2>2. QED
    BY <2>1 DEF parentVars
<1>2. CASE Start
  BY <1>2 DEF Start, dbVars, history
<1>3. CASE Accept
  BY <1>3 DEF Accept, dbVars
<1>4. CASE Build \/ BuildFails
  <2>1. CASE Build
    BY <2>1, <1>4 DEF Build, dbVars
  <2>2. CASE BuildFails
    BY <2>2, <1>4 DEF BuildFails, dbVars
  <2>3. QED
    BY <1>4, <2>1, <2>2
<1>5. CASE Prune
  <2>1. CASE PrunedRecently
    BY <1>5, <2>1 DEF Prune, PrunedRecently
  <2>2. CASE ~PrunedRecently
    <3>1. /\ phase = "pruning" /\ phase' = "closing"
          /\ triedAt' = startedAt /\ prunedAt' = startedAt
          /\ UNCHANGED <<now, startedAt, buildFailed>>
      BY <1>5, <2>2 DEF Prune, CountAttempt
    <3>2. ~pruneFailed' => log' = Kept
      BY <1>5, <2>2 DEF Prune
    <3>3. Retention > 0 => \A t \in Kept : t + Retention >= startedAt
      BY DEF Kept, Past
    <3>4. QED
      BY <3>1, <3>2, <3>3
  <2>3. QED
    BY <2>1, <2>2
<1>6. CASE EndRefresh
  BY <1>6 DEF EndRefresh, AgeFromStart, dbVars, history
<1>7. CASE Exit
  BY <1>7 DEF Exit, dbVars
<1>8. CASE Fork
  BY <1>8 DEF Fork, dbVars
<1>9. CASE ChildMail \/ ChildExit
  <2>1. UNCHANGED <<triedAt, prunedAt, phase, forced, startedAt, builtAt, buildFailed,
                    pruneFailed, log>>
    BY <1>9, ChildSteps
  <2>2. QED
    BY <2>1
<1>10. CASE ChildLog
  <2>1. UNCHANGED <<triedAt, prunedAt, phase, forced, startedAt, builtAt, buildFailed,
                    pruneFailed>>
    BY <1>10, LogSteps
  <2>2. log' \subseteq log \cup {now}
    BY <1>10, LogSteps
  <2>3. \A t \in log' : t \in log \/ t + Retention >= prunedAt
    BY <2>2 DEF Past
  <2>4. QED
    BY <2>1, <2>3
<1>11. CASE UNCHANGED vars
  BY <1>11 DEF vars, dbVars, parentVars, history
<1>12. QED
  BY <1>1, <1>2, <1>3, <1>4, <1>5, <1>6, <1>7, <1>8, <1>9, <1>10, <1>11 DEF Next, FailToStart, Stop

\* Every state also has the pruning in order.
LEMMA PruningInvariant == Spec => [](TypeOK /\ Past /\ Prefilter /\ Pruning)
<1>1. Init => Pruning
  BY DEF Init, Pruning, Never
<1>2. QED
  BY <1>1, PrefilterInvariant, PruningStep, PTL DEF Spec

\* When a connection is accepted and the database worked, no log entry has
\* outlived its retention by a pruning interval and a TTL.
THEOREM RetentionCorrect == Spec => []RetentionApplied
<1>1. TypeOK /\ Past /\ Prefilter /\ Pruning => RetentionApplied
  BY TimeAssumption DEF TypeOK, Past, Prefilter, Pruning, RetentionApplied, Never
<1>2. QED
  BY <1>1, PruningInvariant, PTL

\* Two attempts of one process to prune the log are at least an hour apart, also
\* when the first one failed.
THEOREM PruneIntervalCorrect == Spec => PruneAtMostHourly
<1> DEFINE Attempt == triedAt # triedAt' /\ Never \notin {triedAt, triedAt'}
                      => triedAt' - triedAt >= Hour
<1>1. ASSUME TypeOK, Past, Prefilter, Pruning, [Next]_vars PROVE [Attempt]_vars
  <2>1. CASE Prune
    BY <1>1, <2>1, TimeAssumption
       DEF Prune, PrunedRecently, CountAttempt, Pruning, TypeOK, Never
  <2>2. CASE Exit
    BY <2>2 DEF Exit
  <2>3. CASE Tick \/ Edit \/ Start \/ Accept \/ Build \/ BuildFails
    BY <2>3 DEF Tick, Edit, Start, Accept, Build, BuildFails, history
  <2>4. CASE EndRefresh \/ Fork \/ ChildMail \/ ChildLog \/ ChildExit
    BY <2>4 DEF EndRefresh, Fork, ChildMail, ChildLog, ChildExit, history
  <2>5. QED
    BY <1>1, <2>1, <2>2, <2>3, <2>4 DEF Next, FailToStart, Stop
<1>2. QED
  BY <1>1, PruningInvariant, PTL DEF Spec, PruneAtMostHourly
=============================================================================

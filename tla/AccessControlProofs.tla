------------------------- MODULE AccessControlProofs -------------------------
(***************************************************************************)
(* Types, roles and sign-ins of AccessControl, for any number of users,    *)
(* groups, sign-ins at a time, edits and kills.                            *)
(***************************************************************************)
EXTENDS AccessControl, TLAPS

Steps ==
    {"idle", "ensure", "fill", "password", "create", "add", "remove", "admins", "save"}

Processes ==
    [pc : Steps, role : 1..4, user : User, claims : SUBSET SsoGroup,
     lost : SUBSET (User \cup Group), wanted : SUBSET Group, managed : SUBSET Group,
     current : SUBSET Group, admins : BOOLEAN, sure : BOOLEAN]

Accounts == [superuser : BOOLEAN, active : BOOLEAN, password : BOOLEAN, groups : SUBSET Group]

Typed ==
    /\ web \in {"down", "booting", "up"}
    /\ proc \in [Process -> Processes]
    /\ claims \in [SsoUser -> SUBSET SsoGroup]
    /\ synced \in [SsoUser -> [sure : BOOLEAN, claims : SUBSET SsoGroup, kept : SUBSET Group]]
    /\ \A u \in DOMAIN account : account[u] \in Accounts
    /\ AccessTypeOK

\* The boot works while the container boots; what a process has read exists,
\* or it knows that it is lost.
Placed ==
    /\ proc["boot"].pc # "idle" => web = "booting"
    /\ \A p \in {"boot", "command"} :
          /\ proc[p].pc \in {"idle", "ensure", "fill", "password"}
          /\ proc[p].pc = "password" => "admin" \in DOMAIN account \cup proc[p].lost
    /\ \A p \in Process : proc[p].pc = "fill" => proc[p].role \in 1..3
    /\ \A r \in Request :
          /\ proc[r].pc # "password"
          /\ proc[r].pc # "idle" => proc[r].user \in SsoUser
          /\ proc[r].pc \notin {"idle", "create"} =>
                proc[r].user \in DOMAIN account \cup proc[r].lost
          /\ proc[r].pc = "add" => proc[r].wanted \subseteq DOMAIN perms \cup proc[r].lost

AccessInv == Typed /\ Placed

\* How far a sign-in is that nothing came between but others that go by the
\* same claims: these may have added groups it wants, and removed groups that
\* it does not want.
Settling(p) ==
    LET groups == account[p.user].groups IN
    /\ p.user \notin p.lost
    /\ p.pc # "create" => p.user \in DOMAIN account
    /\ p.pc \in {"add", "remove", "admins", "save"} =>
          /\ p.wanted = Wanted(p.claims)
          /\ p.lost \cap Group = {}
          /\ ByHand(groups) = ByHand(p.current)
    /\ p.pc \in {"add", "remove"} =>
          p.managed = Managed /\ groups \subseteq p.current \cup p.wanted
    /\ p.pc = "add" => p.wanted \cap p.current \subseteq groups
    /\ p.pc \in {"remove", "admins", "save"} => p.wanted \subseteq groups
    /\ p.pc \in {"admins", "save"} => groups \subseteq ByHand(p.current) \cup p.wanted
    /\ p.pc = "save" => (p.admins <=> "Admins" \in groups)

Together(r) == Agree(proc[r].user, proc[r].claims)

Undisturbed(r) == proc[r].sure => proc[r].pc # "idle" /\ Together(r) /\ Settling(proc[r])

Settled(u) ==
    synced[u].sure =>
        /\ u \in DOMAIN account
        /\ Agree(u, synced[u].claims)
        /\ synced[u].kept = ByHand(synced[u].kept)
        /\ account[u].groups = synced[u].kept \cup Wanted(synced[u].claims)
        /\ account[u].superuser <=> "Admins" \in account[u].groups

SettleInv == (\A r \in Request : Undisturbed(r)) /\ (\A u \in SsoUser : Settled(u))

-----------------------------------------------------------------------------

LEMMA RolesAre ==
    /\ DOMAIN Roles = 1..3 /\ 1 \in 1..3 /\ 2 \in 1..3 /\ 3 \in 1..3
    /\ Roles[1] = "Admins" /\ Roles[2] = "Editor" /\ Roles[3] = "Reader"
    /\ \A i \in 1..3 : Roles[i] \in Range(Roles)
    /\ \A g \in Range(Roles) : \E i \in 1..3 : g = Roles[i]
    /\ Range(Roles) \subseteq Group
    /\ "Reader" \in Group /\ "Admins" \in Group
BY DEF Roles, Range, Group

LEMMA Saved ==
    ASSUME NEW u, NEW row, WithAccount(u, row)
    PROVE  /\ DOMAIN account' = DOMAIN account \cup {u}
           /\ account'[u] = row
           /\ \A v \in DOMAIN account \ {u} : account'[v] = account[v]
BY DEF WithAccount

\* The rows that the tables refer to.
LEMMA Refer ==
    ASSUME Typed
    PROVE  /\ DOMAIN perms \subseteq Group
           /\ Range(mapping) \subseteq Group
           /\ Managed \subseteq Group
           /\ \A c \in DOMAIN mapping : mapping[c] \in Range(mapping)
           /\ \A c : Wanted(c) \subseteq Range(mapping) \cup {"Reader"}
           /\ \A c : Wanted(c) \subseteq Group
BY RolesAre DEF Typed, AccessTypeOK, Managed, Wanted, Range

LEMMA StartedIs ==
    ASSUME NEW user \in User, NEW claimed \in SUBSET SsoGroup, NEW sure \in BOOLEAN
    PROVE  /\ Started(user, claimed, sure) \in Processes
           /\ Started(user, claimed, sure).pc = "ensure"
           /\ Started(user, claimed, sure).user = user
           /\ Started(user, claimed, sure).sure = sure
           /\ Started(user, claimed, sure).claims = claimed
           /\ Started(user, claimed, sure).lost = {}
BY DEF Started, Processes, Steps

LEMMA IdleIs == Idle \in Processes /\ Idle.pc = "idle" /\ Idle.sure = FALSE
<1> DEFINE first == Started("admin", {}, FALSE)
<1>1. first \in Processes /\ first.sure = FALSE
    <2>1. "admin" \in User /\ {} \in SUBSET SsoGroup /\ FALSE \in BOOLEAN
        BY DEF User
    <2> QED BY <2>1 DEF Started, Processes, Steps
<1>2. Idle = [first EXCEPT !.pc = "idle"]
    BY DEF Idle
<1> HIDE DEF first
<1> QED BY <1>1, <1>2 DEF Processes, Steps

LEMMA InvInitially == AccessInit => AccessInv
<1> SUFFICES ASSUME AccessInit PROVE AccessInv
    OBVIOUS
<1>1. Idle \in Processes /\ Idle.pc = "idle"
    BY IdleIs
<1>2. proc = [p \in Process |-> Idle] /\ Idle.pc = "idle"
    BY <1>1 DEF AccessInit
<1>3. DOMAIN perms = {} /\ DOMAIN mapping = {} /\ DOMAIN account = {} /\ Range(mapping) = {}
    BY DEF AccessInit, Range
<1>4. Typed
    BY <1>1, <1>2, <1>3 DEF AccessInit, Typed, AccessTypeOK, NotSynced, Process
<1>5. \A p \in Process : proc[p].pc = "idle"
    BY <1>2
<1>6. Placed
    BY <1>5 DEF Placed, Process
<1> QED BY <1>4, <1>6 DEF AccessInv

LEMMA RaiseKeeps == ASSUME AccessInv, NEW p \in Process, Raise(p), proc[p].pc # "idle"
                    PROVE AccessInv'
<1>1. Idle \in Processes /\ Idle.pc = "idle"
    BY IdleIs
<1>2. /\ proc' = [proc EXCEPT ![p] = Idle]
      /\ UNCHANGED <<perms, mapping, account, web, claims, synced>>
    BY DEF Raise, database, outside
<1>3. Typed'
    BY <1>1, <1>2 DEF AccessInv, Typed, AccessTypeOK, Process
<1>4. Placed'
    BY <1>1, <1>2 DEF AccessInv, Typed, Placed, Process
<1> QED BY <1>3, <1>4 DEF AccessInv

\* Who works, works while the container does.
LEMMA AtWork ==
    ASSUME AccessInv, NEW p \in Process, proc[p].pc # "idle"
    PROVE  /\ p = "boot" => web = "booting"
           /\ p # "boot" => web = "up"
BY IdleIs DEF AccessInv, Typed, Placed, AccessTypeOK

\* The process passes over the i-th role, or is to fill it.
Ensured(p, i, new) ==
    /\ DOMAIN perms' = DOMAIN perms \cup {Roles[i]}
    /\ Roles[i] \notin DOMAIN perms => perms'[Roles[i]] = "none"
    /\ \A g \in DOMAIN perms : perms'[g] = perms[g]
    /\ proc[p].pc = "ensure"
    /\ proc' = [proc EXCEPT ![p] = new]
    /\ \/ new.pc = "fill" /\ new.role = i /\ new.lost = proc[p].lost \ {Roles[i]}
       \/ new.pc = "ensure" /\ Roles[i] \in DOMAIN perms /\ new.lost = proc[p].lost
    /\ new.user = proc[p].user /\ new.sure = proc[p].sure
    /\ new.claims = proc[p].claims
    /\ UNCHANGED <<mapping, account, web, claims, halfMade, synced>>

LEMMA RoleCreated ==
    ASSUME NEW p \in Process, proc \in [Process -> Processes], EnsureRole(p)
    PROVE  \E i \in 1..3, new \in Processes : Ensured(p, i, new)
<1> DEFINE old == proc[p]
           i == old.role
           lost == old.lost \ {Roles[i]}
           fill == [old EXCEPT !.pc = "fill", !.lost = lost]
           pass == [old EXCEPT !.role = i + 1]
           new == IF IsNewRole(Roles[i]) \/ p = "command" THEN fill ELSE pass
<1>1. /\ old.pc = "ensure" /\ i \in DOMAIN Roles
      /\ perms' = [g \in DOMAIN perms \cup {Roles[i]} |->
                      IF g \in DOMAIN perms THEN perms[g] ELSE "none"]
      /\ proc' = [proc EXCEPT ![p] =
                    IF IsNewRole(Roles[i]) \/ p = "command"
                    THEN [@ EXCEPT !.pc = "fill", !.lost = proc[p].lost \ {Roles[i]}]
                    ELSE [@ EXCEPT !.role = proc[p].role + 1]]
      /\ UNCHANGED <<mapping, account, web, claims, halfMade, synced>>
    BY DEF EnsureRole, outside
<1>2. i \in 1..3
    BY <1>1, RolesAre
<1>3. proc' = [proc EXCEPT ![p] = new]
    BY <1>1
<1>4. old \in Processes
    OBVIOUS
<1>5. IsNewRole(Roles[i]) <=> Roles[i] \notin DOMAIN perms
    BY DEF IsNewRole
<1> HIDE DEF old
<1>6. lost \in SUBSET (User \cup Group) /\ i \in 1..4 /\ i + 1 \in 1..4 /\ "fill" \in Steps
    BY <1>2, <1>4 DEF Processes, Steps
<1> HIDE DEF lost
<1>7. /\ fill \in Processes
      /\ fill.pc = "fill" /\ fill.role = i /\ fill.lost = lost
      /\ fill.user = old.user /\ fill.sure = old.sure /\ fill.claims = old.claims
    BY <1>4, <1>6 DEF Processes
<1>8. /\ pass \in Processes
      /\ pass.pc = old.pc /\ pass.lost = old.lost
      /\ pass.user = old.user /\ pass.sure = old.sure /\ pass.claims = old.claims
    BY <1>4, <1>6 DEF Processes
<1> HIDE DEF fill, pass
<1>9. /\ new \in Processes
      /\ \/ new.pc = "fill" /\ new.role = i /\ new.lost = lost
         \/ new.pc = "ensure" /\ Roles[i] \in DOMAIN perms /\ new.lost = old.lost
      /\ new.user = old.user /\ new.sure = old.sure /\ new.claims = old.claims
    BY <1>1, <1>5, <1>7, <1>8
<1>10. /\ DOMAIN perms' = DOMAIN perms \cup {Roles[i]}
       /\ Roles[i] \notin DOMAIN perms => perms'[Roles[i]] = "none"
       /\ \A g \in DOMAIN perms : perms'[g] = perms[g]
    BY <1>1
<1> HIDE DEF new
<1>11. Ensured(p, i, new)
    BY <1>1, <1>3, <1>9, <1>10 DEF Ensured, old, lost
<1> QED BY <1>2, <1>9, <1>11

LEMMA RoleFilled ==
    ASSUME AccessInv, NEW p \in Process, FillRole(p)
    PROVE  \E new \in Processes :
              /\ proc[p].pc = "fill" /\ proc[p].role \in 1..3
              /\ Roles[proc[p].role] \notin proc[p].lost
              /\ DOMAIN perms' = DOMAIN perms
              /\ \A g \in DOMAIN perms :
                    perms'[g] = IF g = Roles[proc[p].role] THEN "default" ELSE perms[g]
              /\ proc' = [proc EXCEPT ![p] = new]
              /\ new.pc = "ensure" /\ new.lost = proc[p].lost
              /\ new.user = proc[p].user /\ new.sure = proc[p].sure
              /\ new.claims = proc[p].claims
              /\ halfMade' = halfMade \ {Roles[proc[p].role]}
              /\ UNCHANGED <<mapping, account, web, claims, synced>>
<1> DEFINE new == [proc[p] EXCEPT !.pc = "ensure", !.role = @ + 1]
<1>1. /\ proc' = [proc EXCEPT ![p].pc = "ensure", ![p].role = @ + 1]
      /\ perms' = [perms EXCEPT ![Roles[proc[p].role]] = "default"]
      /\ proc[p].pc = "fill" /\ Roles[proc[p].role] \notin proc[p].lost
      /\ halfMade' = halfMade \ {Roles[proc[p].role]}
      /\ UNCHANGED <<mapping, account, web, claims, synced>>
    BY DEF FillRole, outside
<1>2. proc[p] \in Processes /\ proc[p].role \in 1..3 /\ proc \in [Process -> Processes]
    BY <1>1 DEF AccessInv, Typed, Placed
<1>3. proc' = [proc EXCEPT ![p] = new]
    BY <1>1, <1>2
<1>4. /\ new.pc = "ensure" /\ new.lost = proc[p].lost
      /\ new.user = proc[p].user /\ new.sure = proc[p].sure /\ new.claims = proc[p].claims
    BY <1>2 DEF Processes
<1>5. proc[p].role + 1 \in 1..4 /\ "ensure" \in Steps
    BY <1>2 DEF Steps
<1>6. new \in Processes
    BY <1>2, <1>5 DEF Processes
<1> HIDE DEF new
<1> QED BY <1>1, <1>2, <1>3, <1>4, <1>6

LEMMA InvRoles ==
    ASSUME AccessInv, NEW p \in Process, EnsureRole(p) \/ FillRole(p)
    PROVE  AccessInv'
<1>1. CASE EnsureRole(p)
    <2>0. proc \in [Process -> Processes]
        BY DEF AccessInv, Typed
    <2>1. PICK i \in 1..3, new \in Processes : Ensured(p, i, new)
        BY <1>1, <2>0, RoleCreated
    <2> USE <2>1 DEF Ensured
    <2>2. Roles[i] \in Group
        BY RolesAre
    <2>3. /\ p = "boot" => web = "booting"
          /\ p # "boot" => web = "up"
        BY <2>1, AtWork
    <2>4. Typed'
        <3>1. proc' \in [Process -> Processes]
            BY <2>0, <2>1
        <3>2. /\ DOMAIN perms' \subseteq Group
              /\ \A g \in DOMAIN perms' : perms'[g] \in {"none", "default", "edited"}
            BY <2>1, <2>2 DEF AccessInv, Typed, AccessTypeOK
        <3>3. web' # "up" => \A q \in Process \ {"boot"} : proc'[q] = Idle
            BY <2>0, <2>1, <2>3, AccessAssumption DEF AccessInv, Typed, AccessTypeOK, Process
        <3>4. AccessTypeOK'
            BY <2>1, <3>2, <3>3 DEF AccessInv, Typed, AccessTypeOK
        <3> QED BY <2>1, <3>1, <3>4 DEF AccessInv, Typed
    <2>5. Placed'
        BY <2>1, <2>2, <2>3, AccessAssumption DEF AccessInv, Typed, Placed, Process, User
    <2> QED BY <2>4, <2>5 DEF AccessInv
<1>2. CASE FillRole(p)
    <2>1. PICK new \in Processes :
              /\ proc[p].pc = "fill"
              /\ DOMAIN perms' = DOMAIN perms
              /\ \A g \in DOMAIN perms :
                    perms'[g] = IF g = Roles[proc[p].role] THEN "default" ELSE perms[g]
              /\ proc' = [proc EXCEPT ![p] = new]
              /\ new.pc = "ensure" /\ new.lost = proc[p].lost
              /\ new.user = proc[p].user
              /\ UNCHANGED <<mapping, account, web, claims, synced>>
        BY <1>2, RoleFilled
    <2>2. /\ p = "boot" => web = "booting"
          /\ p # "boot" => web = "up"
        BY <2>1, AtWork
    <2>3. Typed'
        <3>1. proc' \in [Process -> Processes]
            BY <2>1 DEF AccessInv, Typed
        <3>2. /\ DOMAIN perms' \subseteq Group
              /\ \A g \in DOMAIN perms' : perms'[g] \in {"none", "default", "edited"}
            BY <2>1 DEF AccessInv, Typed, AccessTypeOK
        <3>3. web' # "up" => \A q \in Process \ {"boot"} : proc'[q] = Idle
            BY <2>1, <2>2, AccessAssumption DEF AccessInv, Typed, AccessTypeOK, Process
        <3>4. AccessTypeOK'
            BY <2>1, <3>2, <3>3 DEF AccessInv, Typed, AccessTypeOK
        <3> QED BY <2>1, <3>1, <3>4 DEF AccessInv, Typed
    <2>4. Placed'
        BY <2>1, <2>2 DEF AccessInv, Typed, Placed, Process
    <2> QED BY <2>3, <2>4 DEF AccessInv
<1> QED BY <1>1, <1>2

-----------------------------------------------------------------------------
(* Sign-ins. *)

LEMMA OneMoves ==
    ASSUME AccessInv, NEW p \in Process, NEW new \in Processes,
           proc' = [proc EXCEPT ![p] = new], proc[p].pc # "idle", UNCHANGED web
    PROVE  /\ proc' \in [Process -> Processes]
           /\ proc'[p] = new /\ \A q \in Process \ {p} : proc'[q] = proc[q]
           /\ web' # "up" => \A q \in Process \ {"boot"} : proc'[q] = Idle
<1>1. /\ proc' \in [Process -> Processes]
      /\ proc'[p] = new /\ \A q \in Process \ {p} : proc'[q] = proc[q]
    BY DEF AccessInv, Typed
<1>2. /\ p = "boot" => web = "booting"
      /\ p # "boot" => web = "up"
    BY AtWork
<1>3. web' # "up" => \A q \in Process \ {"boot"} : proc'[q] = Idle
    BY <1>1, <1>2, AccessAssumption DEF AccessInv, Typed, AccessTypeOK, Process
<1> QED BY <1>1, <1>3

\* What a statement of a sign-in leaves alone.
SignInFrame(r, new) ==
    /\ proc' = [proc EXCEPT ![r] = new]
    /\ new.user = proc[r].user /\ new.claims = proc[r].claims /\ new.sure = proc[r].sure
    /\ UNCHANGED <<perms, mapping, web, claims, halfMade>>

\* The user of a sign-in gets these groups, unless his row is gone.
GroupsSaved(r, groups) ==
    IF proc[r].user \in proc[r].lost THEN UNCHANGED account
    ELSE WithAccount(proc[r].user, [account[proc[r].user] EXCEPT !.groups = groups])

LEMMA GroupsSavedAre ==
    ASSUME AccessInv, NEW r \in Request, proc[r].pc \notin {"idle", "create"},
           NEW groups, GroupsSaved(r, groups),
           proc[r].user \notin proc[r].lost => groups \subseteq DOMAIN perms
    PROVE  /\ DOMAIN account' = DOMAIN account
           /\ \A u \in DOMAIN account :
                 /\ account'[u] \in Accounts
                 /\ account'[u].groups \subseteq DOMAIN perms
                 /\ account'[u].superuser = account[u].superuser
                 /\ account'[u].password = account[u].password
                 /\ u # proc[r].user => account'[u] = account[u]
           /\ proc[r].user \notin proc[r].lost => account'[proc[r].user].groups = groups
<1> DEFINE u == proc[r].user
           row == [account[u] EXCEPT !.groups = groups]
<1>1. CASE u \in proc[r].lost
    BY <1>1 DEF GroupsSaved, AccessInv, Typed, AccessTypeOK
<1>2. CASE u \notin proc[r].lost
    <2>1. u \in DOMAIN account /\ account[u] \in Accounts /\ groups \in SUBSET Group
        BY <1>2, Refer DEF AccessInv, Placed, Typed
    <2>2. /\ row \in Accounts /\ row.groups = groups
          /\ row.superuser = account[u].superuser /\ row.password = account[u].password
        BY <2>1 DEF Accounts
    <2>3. WithAccount(u, row)
        BY <1>2 DEF GroupsSaved
    <2> HIDE DEF row, u
    <2>4. /\ DOMAIN account' = DOMAIN account
          /\ account'[u] = row
          /\ \A v \in DOMAIN account \ {u} : account'[v] = account[v]
        BY <2>1, <2>3, Saved
    <2> QED BY <1>2, <2>2, <2>4 DEF AccessInv, Typed, AccessTypeOK, u
<1> QED BY <1>1, <1>2

LEMMA GroupsRead ==
    ASSUME AccessInv, NEW r \in Request, ReadGroups(r)
    PROVE  \E new \in Processes :
              /\ SignInFrame(r, new)
              /\ proc[r].pc = "ensure" /\ new.pc = "add" /\ new.lost = {}
              /\ new.managed = Managed /\ new.wanted = Wanted(proc[r].claims)
              /\ new.current = account[proc[r].user].groups
              /\ "Reader" \in DOMAIN perms
              /\ proc[r].user \in DOMAIN account \ proc[r].lost
              /\ UNCHANGED <<account, synced>>
<1> DEFINE old == proc[r]
           wanted == Wanted(old.claims)
           current == account[old.user].groups
           new == [old EXCEPT !.pc = "add", !.lost = {}, !.managed = Managed,
                              !.wanted = wanted, !.current = current]
<1>1. /\ proc' = [proc EXCEPT ![r] = new]
      /\ old.pc = "ensure" /\ "Reader" \in DOMAIN perms /\ old.user \notin old.lost
      /\ UNCHANGED <<perms, mapping, account, web, claims, halfMade, synced>>
    BY DEF ReadGroups, RolesEnsured, database, outside
<1>2. old \in Processes
    BY DEF AccessInv, Typed, Process
<1>3. old.user \in DOMAIN account
    BY <1>1 DEF AccessInv, Placed
<1>4. /\ wanted \in SUBSET Group /\ Managed \in SUBSET Group
      /\ "add" \in Steps /\ {} \in SUBSET (User \cup Group)
    BY Refer DEF AccessInv, Steps
<1>5. current \in SUBSET Group
    BY <1>3 DEF AccessInv, Typed, Accounts
<1> HIDE DEF old, wanted, current
<1>6. /\ new.pc = "add" /\ new.lost = {} /\ new.managed = Managed /\ new.wanted = wanted
      /\ new.current = current
      /\ new.user = old.user /\ new.claims = old.claims /\ new.sure = old.sure
    BY <1>2 DEF Processes
<1>7. new \in Processes
    BY <1>2, <1>4, <1>5 DEF Processes
<1> HIDE DEF new
<1>8. SignInFrame(r, new)
    BY <1>1, <1>6 DEF SignInFrame, old
<1> QED BY <1>1, <1>3, <1>6, <1>7, <1>8 DEF old, wanted, current

LEMMA Advanced ==
    ASSUME NEW old \in Processes, NEW pc \in Steps
    PROVE  LET new == [old EXCEPT !.pc = pc]
           IN  /\ new \in Processes
               /\ new.pc = pc /\ new.user = old.user /\ new.claims = old.claims
               /\ new.sure = old.sure /\ new.lost = old.lost /\ new.wanted = old.wanted
               /\ new.managed = old.managed /\ new.current = old.current
               /\ new.admins = old.admins /\ new.role = old.role
BY DEF Processes

LEMMA GroupsAdded ==
    ASSUME AccessInv, NEW r \in Request, AddGroups(r)
    PROVE  LET groups == account[proc[r].user].groups \cup (proc[r].wanted \ proc[r].current)
           IN  /\ \E new \in Processes :
                     /\ SignInFrame(r, new)
                     /\ new.pc = "remove" /\ new.lost = proc[r].lost
                     /\ new.managed = proc[r].managed /\ new.wanted = proc[r].wanted
                     /\ new.current = proc[r].current
               /\ proc[r].pc = "add" /\ GroupsSaved(r, groups) /\ UNCHANGED synced
               /\ proc[r].user \notin proc[r].lost => groups \subseteq DOMAIN perms
<1> DEFINE old == proc[r]
           new == [old EXCEPT !.pc = "remove"]
           groups == account[old.user].groups \cup (old.wanted \ old.current)
<1>1. /\ proc' = [proc EXCEPT ![r].pc = "remove"]
      /\ old.pc = "add" /\ Linkable(old)
      /\ SetAccount(r, [account[old.user] EXCEPT !.groups = @ \cup New(old)])
      /\ UNCHANGED <<perms, mapping, web, claims, halfMade, synced>>
    BY DEF AddGroups, outside
<1>2. old \in Processes /\ proc \in [Process -> Processes] /\ "remove" \in Steps
    BY DEF AccessInv, Typed, Process, Steps
<1>3. /\ new \in Processes /\ new.pc = "remove"
      /\ new.user = old.user /\ new.claims = old.claims /\ new.sure = old.sure
      /\ new.lost = old.lost /\ new.wanted = old.wanted /\ new.managed = old.managed
      /\ new.current = old.current
    BY <1>2, Advanced
<1>4. proc' = [proc EXCEPT ![r] = new]
    BY <1>1, <1>2
<1>5. GroupsSaved(r, groups)
    BY <1>1 DEF SetAccount, GroupsSaved, New
<1>6. old.user \notin old.lost => groups \subseteq DOMAIN perms
    <2> SUFFICES ASSUME old.user \notin old.lost PROVE groups \subseteq DOMAIN perms
        OBVIOUS
    <2>1. account[old.user].groups \subseteq DOMAIN perms
        BY <1>1 DEF AccessInv, Placed, Typed, AccessTypeOK
    <2>2. old.wanted \subseteq DOMAIN perms \cup old.lost
        BY <1>1 DEF AccessInv, Placed
    <2>3. old.wanted \ old.current \subseteq DOMAIN perms
        BY <1>1, <2>2 DEF Linkable, New
    <2> QED BY <2>1, <2>3
<1> HIDE DEF new
<1>7. SignInFrame(r, new)
    BY <1>1, <1>3, <1>4 DEF SignInFrame
<1> QED BY <1>1, <1>3, <1>5, <1>6, <1>7

LEMMA GroupsRemoved ==
    ASSUME AccessInv, NEW r \in Request, RemoveGroups(r)
    PROVE  LET groups == account[proc[r].user].groups \ Revoked(proc[r])
           IN  /\ \E new \in Processes :
                     /\ SignInFrame(r, new)
                     /\ new.pc = "admins" /\ new.lost = proc[r].lost
                     /\ new.wanted = proc[r].wanted /\ new.current = proc[r].current
               /\ proc[r].pc = "remove" /\ GroupsSaved(r, groups) /\ UNCHANGED synced
               /\ proc[r].user \notin proc[r].lost => groups \subseteq DOMAIN perms
<1> DEFINE old == proc[r]
           new == [old EXCEPT !.pc = "admins"]
           groups == account[old.user].groups \ Revoked(old)
<1>1. /\ proc' = [proc EXCEPT ![r].pc = "admins"]
      /\ old.pc = "remove"
      /\ SetAccount(r, [account[old.user] EXCEPT !.groups = @ \ Revoked(old)])
      /\ UNCHANGED <<perms, mapping, web, claims, halfMade, synced>>
    BY DEF RemoveGroups, outside
<1>2. old \in Processes /\ proc \in [Process -> Processes] /\ "admins" \in Steps
    BY DEF AccessInv, Typed, Process, Steps
<1>3. /\ new \in Processes /\ new.pc = "admins"
      /\ new.user = old.user /\ new.claims = old.claims /\ new.sure = old.sure
      /\ new.lost = old.lost /\ new.wanted = old.wanted /\ new.current = old.current
    BY <1>2, Advanced
<1>4. proc' = [proc EXCEPT ![r] = new]
    BY <1>1, <1>2
<1>5. GroupsSaved(r, groups)
    BY <1>1 DEF SetAccount, GroupsSaved
<1>6. old.user \notin old.lost => groups \subseteq DOMAIN perms
    BY <1>1 DEF AccessInv, Placed, Typed, AccessTypeOK
<1> HIDE DEF new
<1>7. SignInFrame(r, new)
    BY <1>1, <1>3, <1>4 DEF SignInFrame
<1> QED BY <1>1, <1>3, <1>5, <1>6, <1>7

LEMMA AdminsRead ==
    ASSUME AccessInv, NEW r \in Request, ReadAdmins(r)
    PROVE  /\ \E new \in Processes :
                 /\ SignInFrame(r, new)
                 /\ new.pc = "save" /\ new.lost = proc[r].lost
                 /\ new.wanted = proc[r].wanted /\ new.current = proc[r].current
                 /\ new.admins <=> /\ proc[r].user \notin proc[r].lost
                                   /\ "Admins" \in account[proc[r].user].groups
           /\ proc[r].pc = "admins" /\ UNCHANGED <<account, synced>>
<1> DEFINE old == proc[r]
           admins == old.user \notin old.lost /\ "Admins" \in account[old.user].groups
           new == [old EXCEPT !.pc = "save", !.admins = admins]
<1>1. /\ proc' = [proc EXCEPT ![r] = new]
      /\ old.pc = "admins"
      /\ UNCHANGED <<perms, mapping, account, web, claims, halfMade, synced>>
    BY DEF ReadAdmins, database, outside
<1>2. old \in Processes /\ "save" \in Steps /\ admins \in BOOLEAN
    BY DEF AccessInv, Typed, Process, Steps
<1> HIDE DEF admins
<1>3. /\ new \in Processes /\ new.pc = "save" /\ new.admins = admins
      /\ new.user = old.user /\ new.claims = old.claims /\ new.sure = old.sure
      /\ new.lost = old.lost /\ new.wanted = old.wanted /\ new.current = old.current
    BY <1>2 DEF Processes
<1> HIDE DEF new
<1>4. SignInFrame(r, new)
    BY <1>1, <1>3 DEF SignInFrame
<1> QED BY <1>1, <1>3, <1>4 DEF admins

LEMMA UserSaved ==
    ASSUME AccessInv, NEW r \in Request, SaveUser(r)
    PROVE  LET p == proc[r] IN
           /\ p.pc = "save" /\ p.user \notin p.lost /\ p.user \in DOMAIN account
           /\ proc' = [proc EXCEPT ![r] = Idle]
           /\ DOMAIN account' = DOMAIN account
           /\ \A u \in DOMAIN account :
                 /\ account'[u] \in Accounts
                 /\ account'[u].groups = account[u].groups
                 /\ account'[u].password = account[u].password
                 /\ u # p.user => account'[u] = account[u]
           /\ account'[p.user].superuser = p.admins
           /\ synced' = [synced EXCEPT ![p.user] =
                            IF p.sure THEN [sure |-> TRUE, claims |-> p.claims,
                                            kept |-> ByHand(p.current)]
                            ELSE NotSynced]
           /\ UNCHANGED <<perms, mapping, web, claims, halfMade>>
<1> DEFINE p == proc[r]
           row == [account[p.user] EXCEPT !.superuser = p.admins]
<1>1. /\ p.pc = "save" /\ p.user \notin p.lost
      /\ WithAccount(p.user, row)
      /\ proc' = [proc EXCEPT ![r] = Idle]
      /\ synced' = [synced EXCEPT ![p.user] =
                       IF p.sure THEN [sure |-> TRUE, claims |-> p.claims,
                                       kept |-> ByHand(p.current)]
                       ELSE NotSynced]
      /\ UNCHANGED <<perms, mapping, web, claims, halfMade>>
    BY DEF SaveUser, outside
<1>2. p \in Processes /\ p.user \in DOMAIN account
    BY <1>1 DEF AccessInv, Typed, Placed, Process
<1>3. account[p.user] \in Accounts /\ p.admins \in BOOLEAN
    BY <1>2 DEF AccessInv, Typed, Processes
<1>4. /\ row \in Accounts /\ row.groups = account[p.user].groups
      /\ row.password = account[p.user].password /\ row.superuser = p.admins
    BY <1>3 DEF Accounts
<1> HIDE DEF row
<1>5. /\ DOMAIN account' = DOMAIN account
      /\ account'[p.user] = row
      /\ \A v \in DOMAIN account \ {p.user} : account'[v] = account[v]
    <2>1. WithAccount(p.user, row)
        BY <1>1 DEF row
    <2>2. DOMAIN account \cup {p.user} = DOMAIN account
        BY <1>2
    <2> HIDE DEF p
    <2> QED BY ONLY <2>1, <2>2, Saved
<1>6. \A u \in DOMAIN account :
          /\ account'[u] \in Accounts
          /\ account'[u].groups = account[u].groups
          /\ account'[u].password = account[u].password
          /\ u # p.user => account'[u] = account[u]
    BY <1>4, <1>5 DEF AccessInv, Typed
<1> QED BY <1>1, <1>2, <1>4, <1>5, <1>6

LEMMA UnsureIs ==
    ASSUME NEW p \in Processes, NEW users
    PROVE  LET q == Unsure(p, users) IN
           /\ q \in Processes
           /\ q.pc = p.pc /\ q.role = p.role /\ q.user = p.user /\ q.lost = p.lost
           /\ q.wanted = p.wanted /\ q.claims = p.claims
           /\ q.sure => q = p /\ p.sure /\ p.user \notin users
           /\ p.user \notin users => q = p
<1>1. CASE p.user \in users
    <2>1. Unsure(p, users) = [p EXCEPT !.sure = FALSE]
        BY <1>1 DEF Unsure
    <2> QED BY <1>1, <2>1 DEF Processes
<1>2. CASE p.user \notin users
    BY <1>2 DEF Unsure
<1> QED BY <1>1, <1>2

\* The sign-in has begun; others of the user with other claims, if any, make
\* them all unsure.
Begins(r, u) ==
    /\ web = "up" /\ proc[r].pc = "idle"
    /\ proc' \in [Process -> Processes]
    /\ proc'[r].pc = IF u \in DOMAIN account THEN "ensure" ELSE "create"
    /\ proc'[r].user = u /\ proc'[r].claims = claims[u] /\ proc'[r].lost = {}
    /\ proc'[r].sure <=> Agree(u, claims[u])
    /\ \A p \in Process \ {r} :
          proc'[p] = IF Agree(u, claims[u]) THEN proc[p] ELSE Unsure(proc[p], {u})
    /\ synced' = IF synced[u].sure /\ synced[u].claims = claims[u] THEN synced
                 ELSE [synced EXCEPT ![u] = NotSynced]
    /\ UNCHANGED <<perms, mapping, account, web, claims, halfMade>>

LEMMA SignInStarted ==
    ASSUME AccessInv, NEW r \in Request, NEW u \in SsoUser, StartSignIn(r, u)
    PROVE  Begins(r, u)
<1> DEFINE agree == Agree(u, claims[u])
           pc == IF u \in DOMAIN account THEN "ensure" ELSE "create"
           first == Started(u, claims[u], agree)
           new == [first EXCEPT !.pc = pc]
<1>1. /\ web = "up" /\ proc[r].pc = "idle"
      /\ proc' = [p \in Process |->
                    IF p = r THEN new ELSE IF agree THEN proc[p] ELSE Unsure(proc[p], {u})]
      /\ synced' = IF synced[u].sure /\ synced[u].claims = claims[u] THEN synced
                   ELSE [synced EXCEPT ![u] = NotSynced]
      /\ UNCHANGED <<perms, mapping, account, web, claims, halfMade>>
    BY DEF StartSignIn, database, outside
<1>2. u \in User /\ claims[u] \in SUBSET SsoGroup /\ agree \in BOOLEAN
    BY DEF User, AccessInv, Typed, Agree
<1>3. pc \in Steps
    BY DEF Steps
<1> HIDE DEF agree, pc
<1>4. /\ first \in Processes /\ first.user = u /\ first.claims = claims[u]
      /\ first.lost = {} /\ first.sure = agree
    BY <1>2, StartedIs
<1> HIDE DEF first
<1>5. /\ new \in Processes /\ new.pc = pc /\ new.user = u /\ new.claims = claims[u]
      /\ new.lost = {} /\ new.sure = agree
    BY <1>3, <1>4 DEF Processes
<1> HIDE DEF new
<1>6. \A p \in Process : proc[p] \in Processes /\ Unsure(proc[p], {u}) \in Processes
    BY UnsureIs DEF AccessInv, Typed
<1>7. proc' \in [Process -> Processes]
    BY <1>1, <1>5, <1>6
<1>8. r \in Process
    BY DEF Process
<1> QED BY <1>1, <1>5, <1>7, <1>8 DEF Begins, agree, pc

LEMMA AccountCreated ==
    ASSUME AccessInv, NEW r \in Request, CreateAccount(r)
    PROVE  /\ \E new \in Processes :
                 /\ SignInFrame(r, new)
                 /\ new.pc = "ensure" /\ new.lost = proc[r].lost \ {proc[r].user}
           /\ proc[r].pc = "create" /\ proc[r].user \in SsoUser \ DOMAIN account
           /\ DOMAIN account' = DOMAIN account \cup {proc[r].user}
           /\ account'[proc[r].user] = Account(FALSE, TRUE, FALSE, {})
           /\ \A u \in DOMAIN account : account'[u] = account[u]
           /\ UNCHANGED synced
<1> DEFINE old == proc[r]
           lost == old.lost \ {old.user}
           new == [old EXCEPT !.pc = "ensure", !.lost = lost]
<1>1. /\ old.pc = "create" /\ old.user \notin DOMAIN account
      /\ WithAccount(old.user, Account(FALSE, TRUE, FALSE, {}))
      /\ proc' = [proc EXCEPT ![r].pc = "ensure", ![r].lost = @ \ {old.user}]
      /\ UNCHANGED <<perms, mapping, web, claims, halfMade, synced>>
    BY DEF CreateAccount, outside
<1>2. old \in Processes /\ proc \in [Process -> Processes] /\ old.user \in SsoUser
    BY <1>1 DEF AccessInv, Typed, Placed, Process
<1>3. proc' = [proc EXCEPT ![r] = new]
    BY <1>1, <1>2
<1>4. lost \in SUBSET (User \cup Group) /\ "ensure" \in Steps
    BY <1>2 DEF Processes, Steps
<1>5. /\ DOMAIN account' = DOMAIN account \cup {old.user}
      /\ account'[old.user] = Account(FALSE, TRUE, FALSE, {})
      /\ \A u \in DOMAIN account \ {old.user} : account'[u] = account[u]
    <2>1. WithAccount(old.user, Account(FALSE, TRUE, FALSE, {}))
        BY <1>1
    <2> HIDE DEF old
    <2> QED BY ONLY <2>1, Saved
<1> HIDE DEF old, lost
<1>6. /\ new \in Processes /\ new.pc = "ensure" /\ new.lost = lost
      /\ new.user = old.user /\ new.claims = old.claims /\ new.sure = old.sure
    BY <1>2, <1>4 DEF Processes
<1> HIDE DEF new
<1>7. SignInFrame(r, new)
    BY <1>1, <1>3, <1>6 DEF SignInFrame, old
<1> QED BY <1>1, <1>2, <1>5, <1>6, <1>7 DEF old, lost

\* A statement of a sign-in.
SignInMoves(r) ==
    \/ CreateAccount(r) \/ ReadGroups(r) \/ AddGroups(r) \/ RemoveGroups(r) \/ ReadAdmins(r)
    \/ SaveUser(r)

LEMMA InvSignIn == ASSUME AccessInv, NEW r \in Request, SignInMoves(r) PROVE AccessInv'
<1>0. /\ Account(FALSE, TRUE, FALSE, {}) \in Accounts
      /\ Account(FALSE, TRUE, FALSE, {}).groups = {}
    BY DEF Account, Accounts
<1>1. /\ DOMAIN account \subseteq DOMAIN account' /\ DOMAIN account' \subseteq User
      /\ \A u \in DOMAIN account' :
            account'[u] \in Accounts /\ account'[u].groups \subseteq DOMAIN perms
    <2>1. CASE ReadGroups(r) \/ ReadAdmins(r)
        BY <2>1, GroupsRead, AdminsRead DEF AccessInv, Typed, AccessTypeOK
    <2>2. CASE AddGroups(r)
        BY <2>2, GroupsAdded, GroupsSavedAre DEF AccessInv, Typed, AccessTypeOK
    <2>3. CASE RemoveGroups(r)
        BY <2>3, GroupsRemoved, GroupsSavedAre DEF AccessInv, Typed, AccessTypeOK
    <2>4. CASE SaveUser(r)
        BY <2>4, UserSaved DEF AccessInv, Typed, AccessTypeOK
    <2>5. CASE CreateAccount(r)
        <3>1. /\ proc[r].user \in User
              /\ DOMAIN account' = DOMAIN account \cup {proc[r].user}
              /\ account'[proc[r].user] = Account(FALSE, TRUE, FALSE, {})
              /\ \A u \in DOMAIN account : account'[u] = account[u]
            BY <2>5, AccountCreated DEF User
        <3> QED BY <1>0, <3>1 DEF AccessInv, Typed, AccessTypeOK
    <2> QED BY <2>1, <2>2, <2>3, <2>4, <2>5 DEF SignInMoves
<1>2. \E new \in Processes :
         /\ proc' = [proc EXCEPT ![r] = new]
         /\ new.pc \in {"idle", "ensure", "add", "remove", "admins", "save"}
         /\ new.pc # "idle" => new.user = proc[r].user
         /\ new.pc # "idle" => new.user \in DOMAIN account' \cup new.lost
         /\ new.pc = "add" => new.wanted \subseteq DOMAIN perms
    <2>1. CASE ReadGroups(r)
        <3>1. \A c : Wanted(c) \subseteq DOMAIN perms \cup {"Reader"}
            BY Refer DEF AccessInv, Typed, AccessTypeOK
        <3> QED BY <2>1, <3>1, GroupsRead DEF SignInFrame
    <2>2. CASE AddGroups(r)
        BY <1>1, <2>2, GroupsAdded DEF SignInFrame, AccessInv, Placed
    <2>3. CASE RemoveGroups(r)
        BY <1>1, <2>3, GroupsRemoved DEF SignInFrame, AccessInv, Placed
    <2>4. CASE ReadAdmins(r)
        BY <1>1, <2>4, AdminsRead DEF SignInFrame, AccessInv, Placed
    <2>5. CASE SaveUser(r)
        BY <2>5, UserSaved, IdleIs
    <2>6. CASE CreateAccount(r)
        BY <2>6, AccountCreated DEF SignInFrame
    <2> QED BY <2>1, <2>2, <2>3, <2>4, <2>5, <2>6 DEF SignInMoves
<1>3. synced' \in [SsoUser -> [sure : BOOLEAN, claims : SUBSET SsoGroup, kept : SUBSET Group]]
    <2>1. CASE SaveUser(r)
        <3> DEFINE p == proc[r]
                   old == [sure |-> TRUE, claims |-> p.claims, kept |-> ByHand(p.current)]
        <3>1. p \in Processes
            BY DEF AccessInv, Typed, Process
        <3>2. ByHand(p.current) \in SUBSET Group
            BY <3>1 DEF Processes, ByHand
        <3>3. /\ old \in [sure : BOOLEAN, claims : SUBSET SsoGroup, kept : SUBSET Group]
              /\ NotSynced \in [sure : BOOLEAN, claims : SUBSET SsoGroup, kept : SUBSET Group]
            BY <3>1, <3>2 DEF Processes, NotSynced
        <3>4. synced' = [synced EXCEPT ![p.user] = IF p.sure THEN old ELSE NotSynced]
            BY <2>1, UserSaved
        <3> QED BY <3>3, <3>4 DEF AccessInv, Typed
    <2>2. CASE ~SaveUser(r)
        BY <2>2, AccountCreated, GroupsRead, GroupsAdded, GroupsRemoved, AdminsRead
           DEF SignInMoves, AccessInv, Typed
    <2> QED BY <2>1, <2>2
<1>4. proc[r].pc # "idle" /\ UNCHANGED <<perms, mapping, web, claims>>
    BY AccountCreated, GroupsRead, GroupsAdded, GroupsRemoved, AdminsRead, UserSaved
       DEF SignInMoves, SignInFrame
<1>5. PICK new \in Processes :
         /\ proc' = [proc EXCEPT ![r] = new]
         /\ new.pc \in {"idle", "ensure", "add", "remove", "admins", "save"}
         /\ new.pc # "idle" => new.user = proc[r].user
         /\ new.pc # "idle" => new.user \in DOMAIN account' \cup new.lost
         /\ new.pc = "add" => new.wanted \subseteq DOMAIN perms
    BY <1>2
<1>6. /\ proc' \in [Process -> Processes]
      /\ proc'[r] = new /\ \A q \in Process \ {r} : proc'[q] = proc[q]
      /\ web' # "up" => \A q \in Process \ {"boot"} : proc'[q] = Idle
    BY <1>4, <1>5, OneMoves DEF Process
<1>7. Typed'
    BY <1>1, <1>3, <1>4, <1>6 DEF AccessInv, Typed, AccessTypeOK
<1>8. r \notin {"boot", "command"} /\ r \in Process /\ {"boot", "command"} \subseteq Process
    BY AccessAssumption DEF Process
<1>9. Placed'
    <2>1. /\ \A p \in {"boot", "command"} : proc'[p] = proc[p]
          /\ \A p \in Process : proc'[p].pc = "fill" => proc[p].pc = "fill" /\ proc'[p] = proc[p]
        BY <1>5, <1>6, <1>8
    <2>2. \A q \in Request : q # r => proc'[q] = proc[q]
        BY <1>6 DEF Process
    <2>3. proc[r].user \in SsoUser
        BY <1>4 DEF AccessInv, Placed
    <2> QED BY <1>1, <1>4, <1>5, <1>6, <2>1, <2>2, <2>3 DEF AccessInv, Placed
<1> QED BY <1>7, <1>9 DEF AccessInv

LEMMA InvStart ==
    ASSUME AccessInv, NEW r \in Request, NEW u \in SsoUser, StartSignIn(r, u)
    PROVE  AccessInv'
<1>0. Begins(r, u)
    BY SignInStarted
<1>1. /\ web = "up" /\ proc[r].pc = "idle"
      /\ proc' \in [Process -> Processes]
      /\ proc'[r].pc = IF u \in DOMAIN account THEN "ensure" ELSE "create"
      /\ proc'[r].user = u
      /\ \A p \in Process \ {r} :
            proc'[p] = IF Agree(u, claims[u]) THEN proc[p] ELSE Unsure(proc[p], {u})
      /\ UNCHANGED <<perms, mapping, account, web, claims>>
    BY <1>0 DEF Begins
<1>2. \A p \in Process \ {r} :
          /\ proc'[p].pc = proc[p].pc /\ proc'[p].role = proc[p].role
          /\ proc'[p].user = proc[p].user /\ proc'[p].lost = proc[p].lost
          /\ proc'[p].wanted = proc[p].wanted
    BY <1>1, UnsureIs DEF AccessInv, Typed
<1>3. synced' \in [SsoUser -> [sure : BOOLEAN, claims : SUBSET SsoGroup, kept : SUBSET Group]]
    <2>1. NotSynced \in [sure : BOOLEAN, claims : SUBSET SsoGroup, kept : SUBSET Group]
        BY DEF NotSynced
    <2>2. synced' = synced \/ synced' = [synced EXCEPT ![u] = NotSynced]
        BY <1>0 DEF Begins
    <2> QED BY <2>1, <2>2 DEF AccessInv, Typed
<1>4. Typed'
    BY <1>1, <1>3 DEF AccessInv, Typed, AccessTypeOK
<1>5. /\ r \notin {"boot", "command"} /\ {"boot", "command"} \subseteq Process
      /\ Request \subseteq Process
    BY AccessAssumption DEF Process
<1>6. Placed'
    <2>1. \A p \in {"boot", "command"} : p \in Process \ {r}
        BY <1>5
    <2>2. proc'[r].pc # "idle" => proc'[r].user \in SsoUser
        BY <1>1
    <2>3. proc'[r].pc \notin {"idle", "create"} => proc'[r].user \in DOMAIN account
        BY <1>1
    <2> QED BY <1>1, <1>2, <1>5, <2>1, <2>2, <2>3 DEF AccessInv, Placed
<1> QED BY <1>4, <1>6 DEF AccessInv

-----------------------------------------------------------------------------
(* The boot. *)

LEMMA AdminCreated ==
    ASSUME AccessInv, NEW p \in {"boot", "command"}, CreateAdmin(p)
    PROVE  /\ DOMAIN account' = DOMAIN account \cup {"admin"}
           /\ account'["admin"] \in Accounts
           /\ account'["admin"].groups \subseteq DOMAIN perms
           /\ \A u \in DOMAIN account \ {"admin"} : account'[u] = account[u]
           /\ \E new \in Processes :
                 /\ proc' = [proc EXCEPT ![p] = new]
                 /\ new.pc = "password" /\ new.lost = {}
<1> DEFINE row == IF "admin" \in DOMAIN account
                  THEN [account["admin"] EXCEPT !.superuser = TRUE, !.active = TRUE]
                  ELSE Account(TRUE, TRUE, FALSE, {})
           first == Started("admin", {}, FALSE)
           new == [first EXCEPT !.pc = "password"]
<1>1. WithAccount("admin", row) /\ proc' = [proc EXCEPT ![p] = new]
    BY DEF CreateAdmin
<1>2. row \in Accounts /\ row.groups \subseteq DOMAIN perms
    <2>1. CASE "admin" \in DOMAIN account
        <3>1. account["admin"] \in Accounts /\ account["admin"].groups \subseteq DOMAIN perms
            BY <2>1 DEF AccessInv, Typed, AccessTypeOK
        <3>2. row = [account["admin"] EXCEPT !.superuser = TRUE, !.active = TRUE]
            BY <2>1
        <3> QED BY <3>1, <3>2 DEF Accounts
    <2>2. CASE "admin" \notin DOMAIN account
        BY <2>2 DEF Account, Accounts
    <2> QED BY <2>1, <2>2
<1>3. first \in Processes /\ first.lost = {} /\ "password" \in Steps
    BY DEF Started, Processes, Steps, User
<1> HIDE DEF first
<1>4. new \in Processes /\ new.pc = "password" /\ new.lost = {}
    BY <1>3 DEF Processes
<1> HIDE DEF row, new
<1>5. /\ DOMAIN account' = DOMAIN account \cup {"admin"}
      /\ account'["admin"] = row
      /\ \A u \in DOMAIN account \ {"admin"} : account'[u] = account[u]
    BY <1>1, Saved
<1> QED BY <1>1, <1>2, <1>4, <1>5

LEMMA PasswordSet ==
    ASSUME AccessInv, NEW p \in Process, SavePassword(p)
    PROVE  /\ web' = "up" /\ proc[p].pc = "password" /\ p \in {"boot", "command"}
           /\ "admin" \in DOMAIN account
           /\ DOMAIN account' = DOMAIN account
           /\ account'["admin"] \in Accounts
           /\ account'["admin"].groups \subseteq DOMAIN perms
           /\ account'["admin"].password = TRUE
           /\ \A u \in DOMAIN account \ {"admin"} : account'[u] = account[u]
           /\ proc' = [proc EXCEPT ![p] = Idle]
           /\ halfMade' = halfMade \ {"admin"}
           /\ UNCHANGED <<perms, mapping, claims, synced>>
<1> DEFINE row == [account["admin"] EXCEPT !.password = TRUE]
<1>1. /\ web' = "up" /\ proc[p].pc = "password" /\ "admin" \notin proc[p].lost
      /\ WithAccount("admin", row)
      /\ proc' = [proc EXCEPT ![p] = Idle]
      /\ halfMade' = halfMade \ {"admin"}
      /\ UNCHANGED <<perms, mapping, claims, synced>>
    BY DEF SavePassword, outside
<1>2. p \in {"boot", "command"} /\ "admin" \in DOMAIN account
    BY <1>1 DEF AccessInv, Placed, Process
<1>3. account["admin"] \in Accounts /\ account["admin"].groups \subseteq DOMAIN perms
    BY <1>2 DEF AccessInv, Typed, AccessTypeOK
<1>4. row \in Accounts /\ row.groups \subseteq DOMAIN perms /\ row.password = TRUE
    BY <1>3 DEF Accounts
<1> HIDE DEF row
<1>5. /\ DOMAIN account' = DOMAIN account \cup {"admin"}
      /\ account'["admin"] = row
      /\ \A u \in DOMAIN account \ {"admin"} : account'[u] = account[u]
    BY <1>1, Saved
<1> QED BY <1>1, <1>2, <1>4, <1>5

\* Steps of the boot, and of the management commands.
BootMoves == AccessBoot \/ BootstrapSkipped \/ BootstrapAdmin \/ ResetRoles \/ ResetAdmin

LEMMA BootMovesAre ==
    ASSUME AccessInv, BootMoves
    PROVE  \E p \in {"boot", "command"}, new \in Processes :
              /\ proc' = [proc EXCEPT ![p] = new]
              /\ proc[p].pc \in {"idle", "ensure"}
              /\ new.pc \in {"idle", "ensure", "password"}
              /\ p = "boot" /\ web' = "up" => new = Idle
              /\ p = "boot" => web' \in {"booting", "up"} /\ web \in {"down", "booting"}
              /\ p = "command" => web = "up" /\ web' = "up"
              /\ DOMAIN account \subseteq DOMAIN account'
              /\ DOMAIN account' \subseteq DOMAIN account \cup {"admin"}
              /\ \A u \in DOMAIN account \ {"admin"} : account'[u] = account[u]
              /\ \/ UNCHANGED account
                 \/ /\ "admin" \in DOMAIN account' /\ account'["admin"] \in Accounts
                    /\ account'["admin"].groups \subseteq DOMAIN perms
                    /\ new.pc = "password"
              /\ new.pc = "password" => "admin" \in DOMAIN account' /\ new.lost = {}
              /\ UNCHANGED <<perms, mapping, claims, halfMade, synced>>
<1>1. /\ Started("admin", {}, FALSE) \in Processes /\ Started("admin", {}, FALSE).pc = "ensure"
      /\ Idle \in Processes /\ Idle.pc = "idle"
    BY IdleIs DEF Started, Processes, Steps, User
<1>2. CASE AccessBoot
    <2>1. proc["boot"].pc = "idle"
        BY <1>2 DEF AccessBoot, AccessInv, Placed
    <2> QED BY <1>1, <1>2, <2>1 DEF AccessBoot, database, outside
<1>3. CASE BootstrapSkipped
    BY <1>1, <1>3 DEF BootstrapSkipped, Migrated, RolesEnsured, Serve, database, outside
<1>4. CASE BootstrapAdmin
    <2>1. /\ CreateAdmin("boot") /\ web = "booting" /\ proc["boot"].pc = "ensure"
          /\ UNCHANGED <<perms, mapping, web, claims, halfMade, synced>>
        BY <1>4 DEF BootstrapAdmin, Migrated, RolesEnsured, outside
    <2> QED BY <2>1, AdminCreated
<1>5. CASE ResetRoles
    <2>1. /\ proc["command"].pc = "idle" /\ web = "up"
          /\ proc' = [proc EXCEPT !["command"] = Started("admin", {}, FALSE)]
          /\ UNCHANGED <<perms, mapping, account, web, claims, halfMade, synced>>
        BY <1>5 DEF ResetRoles, Command, database
    <2> QED BY <1>1, <2>1
<1>6. CASE ResetAdmin
    <2>1. /\ CreateAdmin("command") /\ web = "up" /\ proc["command"].pc = "idle"
          /\ UNCHANGED <<perms, mapping, web, claims, halfMade, synced>>
        BY <1>6 DEF ResetAdmin, Command
    <2> QED BY <2>1, AdminCreated
<1> QED BY <1>2, <1>3, <1>4, <1>5, <1>6 DEF BootMoves

LEMMA InvBoot == ASSUME AccessInv, BootMoves PROVE AccessInv'
<1>1. PICK p \in {"boot", "command"}, new \in Processes :
         /\ proc' = [proc EXCEPT ![p] = new]
         /\ new.pc \in {"idle", "ensure", "password"}
         /\ p = "boot" /\ web' = "up" => new = Idle
         /\ p = "boot" => web' \in {"booting", "up"} /\ web \in {"down", "booting"}
         /\ p = "command" => web = "up" /\ web' = "up"
         /\ DOMAIN account \subseteq DOMAIN account'
         /\ DOMAIN account' \subseteq DOMAIN account \cup {"admin"}
         /\ \A u \in DOMAIN account \ {"admin"} : account'[u] = account[u]
         /\ \/ UNCHANGED account
            \/ /\ "admin" \in DOMAIN account' /\ account'["admin"] \in Accounts
               /\ account'["admin"].groups \subseteq DOMAIN perms
         /\ new.pc = "password" => "admin" \in DOMAIN account'
         /\ UNCHANGED <<perms, mapping, claims, synced>>
    BY BootMovesAre
<1>2. /\ {"boot", "command"} \subseteq Process /\ {"boot", "command"} \cap Request = {}
      /\ Request \subseteq Process /\ proc \in [Process -> Processes]
    BY AccessAssumption DEF Process, AccessInv, Typed
<1>3. /\ proc' \in [Process -> Processes]
      /\ proc'[p] = new /\ \A q \in Process \ {p} : proc'[q] = proc[q]
    BY <1>1, <1>2
<1>4. \A u \in DOMAIN account' :
          account'[u] \in Accounts /\ account'[u].groups \subseteq DOMAIN perms
    BY <1>1 DEF AccessInv, Typed, AccessTypeOK
<1>5. web' \in {"booting", "up"}
    BY <1>1
<1>6. web' # "up" => \A q \in Process \ {"boot"} : proc'[q] = Idle
    BY <1>1, <1>3 DEF AccessInv, Typed, AccessTypeOK
<1>7. AccessTypeOK'
    BY <1>1, <1>4, <1>6 DEF AccessInv, Typed, AccessTypeOK, User
<1>8. Typed'
    BY <1>1, <1>3, <1>4, <1>5, <1>7 DEF AccessInv, Typed
<1>9. Placed'
    <2>1. proc'["boot"].pc # "idle" => web' = "booting"
        BY <1>1, <1>2, <1>3, <1>5, IdleIs DEF AccessInv, Placed
    <2>2. \A q \in {"boot", "command"} :
             /\ proc'[q].pc \in {"idle", "ensure", "fill", "password"}
             /\ proc'[q].pc = "password" => "admin" \in DOMAIN account' \cup proc'[q].lost
        BY <1>1, <1>2, <1>3 DEF AccessInv, Placed
    <2>3. \A q \in Process : proc'[q].pc = "fill" => proc'[q].role \in 1..3
        BY <1>1, <1>2, <1>3 DEF AccessInv, Placed
    <2>4. \A q \in Request : proc'[q] = proc[q]
        BY <1>2, <1>3
    <2> QED BY <1>1, <2>1, <2>2, <2>3, <2>4 DEF AccessInv, Placed
<1> QED BY <1>8, <1>9 DEF AccessInv

LEMMA InvPassword == ASSUME AccessInv, NEW p \in Process, SavePassword(p) PROVE AccessInv'
<1>1. /\ web' = "up" /\ proc[p].pc = "password" /\ p \in {"boot", "command"}
      /\ DOMAIN account' = DOMAIN account /\ "admin" \in DOMAIN account
      /\ account'["admin"] \in Accounts
      /\ account'["admin"].groups \subseteq DOMAIN perms
      /\ \A u \in DOMAIN account \ {"admin"} : account'[u] = account[u]
      /\ proc' = [proc EXCEPT ![p] = Idle]
      /\ UNCHANGED <<perms, mapping, claims, synced>>
    BY PasswordSet
<1>2. /\ p = "boot" => web = "booting"
      /\ p # "boot" => web = "up"
    BY <1>1, AtWork
<1>3. /\ proc' \in [Process -> Processes]
      /\ proc'[p] = Idle /\ \A q \in Process \ {p} : proc'[q] = proc[q]
    BY <1>1, IdleIs DEF AccessInv, Typed
<1>4. \A u \in DOMAIN account :
          account'[u] \in Accounts /\ account'[u].groups \subseteq DOMAIN perms
    BY <1>1 DEF AccessInv, Typed, AccessTypeOK
<1>5. Typed'
    BY <1>1, <1>3, <1>4 DEF AccessInv, Typed, AccessTypeOK
<1>6. /\ {"boot", "command"} \subseteq Process /\ {"boot", "command"} \cap Request = {}
      /\ Request \subseteq Process
    BY AccessAssumption DEF Process
<1>7. proc'["boot"].pc = "idle"
    BY <1>1, <1>2, <1>3, <1>6, IdleIs DEF AccessInv, Placed
<1>8. Placed'
    BY <1>1, <1>3, <1>6, <1>7, IdleIs DEF AccessInv, Placed
<1> QED BY <1>5, <1>8 DEF AccessInv

-----------------------------------------------------------------------------
(* Changes and kills. *)

LEMMA Disturbed ==
    ASSUME AccessInv, NEW users, NEW rows \in SUBSET (User \cup Group),
           Change(users, rows)
    PROVE  /\ web = "up" /\ web' = "up"
           /\ proc' \in [Process -> Processes]
           /\ \A p \in Process :
                 /\ proc'[p].pc = proc[p].pc /\ proc'[p].role = proc[p].role
                 /\ proc'[p].user = proc[p].user /\ proc'[p].lost = proc[p].lost \cup rows
                 /\ proc'[p].wanted = proc[p].wanted /\ proc'[p].claims = proc[p].claims
                 /\ proc[p].user \notin users => proc'[p].sure = proc[p].sure
                 /\ proc'[p].sure =>
                       /\ proc[p].sure /\ proc[p].user \notin users
                       /\ proc'[p].managed = proc[p].managed
                       /\ proc'[p].current = proc[p].current
                       /\ proc'[p].admins = proc[p].admins
           /\ synced' = [u \in SsoUser |-> IF u \in users THEN NotSynced ELSE synced[u]]
           /\ halfMade' = halfMade \ rows
<1>1. /\ web = "up" /\ web' = "up"
      /\ proc' = [p \in Process |-> [Unsure(proc[p], users) EXCEPT !.lost = @ \cup rows]]
      /\ synced' = [u \in SsoUser |-> IF u \in users THEN NotSynced ELSE synced[u]]
      /\ halfMade' = halfMade \ rows
    BY DEF Change
<1>2. ASSUME NEW p \in Process
      PROVE  /\ proc'[p] \in Processes
             /\ proc'[p].pc = proc[p].pc /\ proc'[p].role = proc[p].role
             /\ proc'[p].user = proc[p].user /\ proc'[p].lost = proc[p].lost \cup rows
             /\ proc'[p].wanted = proc[p].wanted /\ proc'[p].claims = proc[p].claims
             /\ proc[p].user \notin users => proc'[p].sure = proc[p].sure
             /\ proc'[p].sure =>
                   /\ proc[p].sure /\ proc[p].user \notin users
                   /\ proc'[p].managed = proc[p].managed
                   /\ proc'[p].current = proc[p].current
                   /\ proc'[p].admins = proc[p].admins
    <2> DEFINE old == Unsure(proc[p], users)
               lost == old.lost \cup rows
    <2>1. proc[p] \in Processes
        BY DEF AccessInv, Typed
    <2>2. /\ old \in Processes
          /\ old.pc = proc[p].pc /\ old.role = proc[p].role /\ old.user = proc[p].user
          /\ old.lost = proc[p].lost /\ old.wanted = proc[p].wanted
          /\ old.claims = proc[p].claims /\ (proc[p].user \notin users => old = proc[p])
          /\ old.sure => old = proc[p] /\ proc[p].sure /\ proc[p].user \notin users
        BY <2>1, UnsureIs
    <2>3. proc'[p] = [old EXCEPT !.lost = lost]
        BY <1>1
    <2>4. lost \in SUBSET (User \cup Group)
        BY <2>2 DEF Processes
    <2>5. lost = proc[p].lost \cup rows
        BY <2>2
    <2> HIDE DEF old, lost
    <2>6. /\ proc'[p] \in Processes
          /\ proc'[p].lost = lost
          /\ proc'[p].pc = old.pc /\ proc'[p].role = old.role /\ proc'[p].user = old.user
          /\ proc'[p].wanted = old.wanted /\ proc'[p].sure = old.sure
          /\ proc'[p].claims = old.claims /\ proc'[p].managed = old.managed
          /\ proc'[p].current = old.current /\ proc'[p].admins = old.admins
        BY <2>2, <2>3, <2>4 DEF Processes
    <2> QED BY <2>2, <2>5, <2>6
<1>3. proc' \in [Process -> Processes]
    BY <1>1, <1>2
<1> QED BY <1>1, <1>2, <1>3

\* The tables after a change that deletes these rows and concerns the groups
\* of these users.
Rearranged(users, rows) ==
    /\ Change(users, rows)
    /\ DOMAIN perms' \subseteq Group
    /\ \A g \in DOMAIN perms' : perms'[g] \in {"none", "default", "edited"}
    /\ DOMAIN perms \ rows \subseteq DOMAIN perms'
    /\ DOMAIN mapping' \subseteq SsoGroup /\ Range(mapping') \subseteq DOMAIN perms'
    /\ DOMAIN account' \subseteq User
    /\ \A u \in DOMAIN account' :
          account'[u] \in Accounts /\ account'[u].groups \subseteq DOMAIN perms'
    /\ DOMAIN account \ rows \subseteq DOMAIN account'
    /\ claims' \in [SsoUser -> SUBSET SsoGroup]
    \* what a sign-in goes by
    /\ SsoUser \subseteq users \/ UNCHANGED mapping
    /\ SsoUser \subseteq users \/ rows \cap Group = {}
    /\ rows \cap (SsoUser \ users) = {}
    /\ \A u \in (SsoUser \ users) \cap DOMAIN account :
          u \in DOMAIN account' /\ account'[u] = account[u]
    \* what was left incomplete
    /\ \A g \in DOMAIN perms' : perms'[g] = "none" =>
          g \in DOMAIN perms \ rows /\ perms[g] = "none"
    /\ "admin" \in DOMAIN account' /\ ~account'["admin"].password =>
          /\ "admin" \in DOMAIN account \ rows
          /\ ~account["admin"].password

LEMMA MappingsEdited ==
    ASSUME AccessInv, NEW c \in SsoGroup, UnmapGroup(c) \/ \E g \in Group : MapGroup(c, g)
    PROVE  Rearranged(SsoUser, {})
<1>1. /\ Change(SsoUser, {}) /\ UNCHANGED <<perms, account, claims>>
      /\ DOMAIN mapping' \subseteq SsoGroup
      /\ \A d \in DOMAIN mapping' : mapping'[d] \in DOMAIN perms
    <2>1. CASE UnmapGroup(c)
        BY <2>1 DEF UnmapGroup, Restrict, AccessInv, Typed, AccessTypeOK, Range
    <2>2. ASSUME NEW g \in Group, MapGroup(c, g)
          PROVE  /\ Change(SsoUser, {}) /\ UNCHANGED <<perms, account, claims>>
                 /\ DOMAIN mapping' \subseteq SsoGroup
                 /\ \A d \in DOMAIN mapping' : mapping'[d] \in DOMAIN perms
        BY <2>2 DEF MapGroup, AccessInv, Typed, AccessTypeOK, Range
    <2> QED BY <2>1, <2>2
<1>2. Range(mapping') \subseteq DOMAIN perms
    BY <1>1 DEF Range
<1> QED BY <1>1, <1>2 DEF Rearranged, AccessInv, Typed, AccessTypeOK

LEMMA GroupSaved ==
    ASSUME AccessInv, NEW g \in Group, SavePerms(g)
    PROVE  Rearranged({}, {})
<1>1. /\ Change({}, {}) /\ UNCHANGED <<mapping, account, claims>>
      /\ DOMAIN perms' = DOMAIN perms \cup {g}
      /\ \A h \in DOMAIN perms' : perms'[h] = IF h = g THEN "edited" ELSE perms[h]
    BY DEF SavePerms
<1> QED BY <1>1 DEF Rearranged, AccessInv, Typed, AccessTypeOK

LEMMA GroupDeleted ==
    ASSUME AccessInv, NEW g \in Group, DeleteGroup(g)
    PROVE  Rearranged(SsoUser, {g})
<1>1. /\ Change(SsoUser, {g}) /\ UNCHANGED claims
      /\ DOMAIN perms' = DOMAIN perms \ {g}
      /\ \A h \in DOMAIN perms' : perms'[h] = perms[h]
      /\ DOMAIN mapping' = {c \in DOMAIN mapping : mapping[c] # g}
      /\ \A c \in DOMAIN mapping' : mapping'[c] = mapping[c]
      /\ account' = [u \in DOMAIN account |-> [account[u] EXCEPT !.groups = @ \ {g}]]
    BY DEF DeleteGroup, Restrict
<1>2. Range(mapping') \subseteq DOMAIN perms'
    BY <1>1 DEF Range, AccessInv, Typed, AccessTypeOK
<1>3. ASSUME NEW u \in DOMAIN account
      PROVE  /\ account'[u] \in Accounts
             /\ account'[u].groups \subseteq DOMAIN perms'
             /\ account'[u].password = account[u].password
    <2>1. account'[u] = [account[u] EXCEPT !.groups = @ \ {g}]
        BY <1>1
    <2>2. account[u] \in Accounts /\ account[u].groups \subseteq DOMAIN perms
        BY DEF AccessInv, Typed, AccessTypeOK
    <2> QED BY <1>1, <2>1, <2>2 DEF Accounts
<1>4. DOMAIN account' = DOMAIN account
    BY <1>1
<1>5. "admin" # g /\ g \notin User
    BY AccessAssumption DEF User
<1> QED BY <1>1, <1>2, <1>3, <1>4, <1>5 DEF Rearranged, AccessInv, Typed, AccessTypeOK

LEMMA UserEdited ==
    ASSUME AccessInv, NEW u \in User, EditUser(u)
    PROVE  Rearranged({u}, {})
<1>1. /\ u \in DOMAIN account /\ Change({u}, {}) /\ UNCHANGED <<perms, mapping, claims>>
      /\ \/ WithAccount(u, [account[u] EXCEPT !.superuser = ~@])
         \/ WithAccount(u, [account[u] EXCEPT !.active = ~@])
         \/ \E g \in DOMAIN perms :
               \/ WithAccount(u, [account[u] EXCEPT !.groups = @ \cup {g}])
               \/ WithAccount(u, [account[u] EXCEPT !.groups = @ \ {g}])
    BY DEF EditUser
<1>2. account[u] \in Accounts /\ account[u].groups \subseteq DOMAIN perms
    BY <1>1 DEF AccessInv, Typed, AccessTypeOK
<1>3. DOMAIN perms \subseteq Group
    BY Refer DEF AccessInv
<1>4. \E row \in Accounts :
         /\ WithAccount(u, row)
         /\ row.groups \subseteq DOMAIN perms /\ row.password = account[u].password
    <2>1. ASSUME NEW row, WithAccount(u, row),
                 \/ row = [account[u] EXCEPT !.superuser = ~@]
                 \/ row = [account[u] EXCEPT !.active = ~@]
                 \/ \E g \in DOMAIN perms : \/ row = [account[u] EXCEPT !.groups = @ \cup {g}]
                                            \/ row = [account[u] EXCEPT !.groups = @ \ {g}]
          PROVE  /\ row \in Accounts
                 /\ row.groups \subseteq DOMAIN perms /\ row.password = account[u].password
        BY <1>2, <1>3, <2>1 DEF Accounts
    <2> QED BY <1>1, <2>1
<1>5. PICK row \in Accounts :
         /\ WithAccount(u, row)
         /\ row.groups \subseteq DOMAIN perms /\ row.password = account[u].password
    BY <1>4
<1>6. /\ DOMAIN account' = DOMAIN account \cup {u}
      /\ account'[u] = row
      /\ \A v \in DOMAIN account \ {u} : account'[v] = account[v]
    BY <1>5, Saved
<1> QED BY <1>1, <1>5, <1>6 DEF Rearranged, AccessInv, Typed, AccessTypeOK

LEMMA UserDeleted ==
    ASSUME AccessInv, NEW u \in User, DeleteUser(u)
    PROVE  Rearranged({u}, {u})
<1>1. /\ Change({u}, {u}) /\ UNCHANGED <<perms, mapping, claims>>
      /\ DOMAIN account' = DOMAIN account \ {u}
      /\ \A v \in DOMAIN account' : account'[v] = account[v]
    BY DEF DeleteUser, Restrict
<1>2. u \notin DOMAIN perms /\ {u} \cap Group = {}
    BY AccessAssumption, Refer DEF AccessInv
<1> QED BY <1>1, <1>2 DEF Rearranged, AccessInv, Typed, AccessTypeOK

LEMMA ClaimsChanged ==
    ASSUME AccessInv, NEW u \in SsoUser, ChangeClaims(u)
    PROVE  Rearranged({}, {})
<1>1. /\ Change({}, {}) /\ UNCHANGED <<perms, mapping, account>>
      /\ claims' \in [SsoUser -> SUBSET SsoGroup]
    BY DEF ChangeClaims, database, AccessInv, Typed
<1> QED BY <1>1 DEF Rearranged, AccessInv, Typed, AccessTypeOK

LEMMA EveryChange ==
    ASSUME AccessInv, AccessChange
    PROVE  \E users \in SUBSET User, rows \in SUBSET (User \cup Group) : Rearranged(users, rows)
<1>1. /\ SsoUser \in SUBSET User /\ {} \in SUBSET User
      /\ {} \in SUBSET (User \cup Group)
      /\ \A u \in User : {u} \in SUBSET User /\ {u} \in SUBSET (User \cup Group)
      /\ \A g \in Group : {g} \in SUBSET (User \cup Group)
    BY DEF User
<1>2. CASE \E c \in SsoGroup : UnmapGroup(c) \/ \E g \in Group : MapGroup(c, g)
    BY <1>1, <1>2, MappingsEdited
<1>3. CASE \E g \in Group : SavePerms(g) \/ DeleteGroup(g)
    BY <1>1, <1>3, GroupSaved, GroupDeleted
<1>4. CASE \E u \in User : EditUser(u) \/ DeleteUser(u)
    BY <1>1, <1>4, UserEdited, UserDeleted
<1>5. CASE \E u \in SsoUser : ChangeClaims(u)
    BY <1>1, <1>5, ClaimsChanged
<1> QED BY <1>2, <1>3, <1>4, <1>5 DEF AccessChange

LEMMA InvChange == ASSUME AccessInv, AccessChange PROVE AccessInv'
<1> SUFFICES ASSUME NEW users, NEW rows \in SUBSET (User \cup Group),
                    Rearranged(users, rows)
             PROVE  AccessInv'
    BY EveryChange
<1>2. Rearranged(users, rows)
    OBVIOUS
<1>3. Change(users, rows)
    BY DEF Rearranged
<1>4. /\ web = "up" /\ web' = "up"
      /\ proc' \in [Process -> Processes]
      /\ \A p \in Process :
            /\ proc'[p].pc = proc[p].pc /\ proc'[p].role = proc[p].role
            /\ proc'[p].user = proc[p].user /\ proc'[p].lost = proc[p].lost \cup rows
            /\ proc'[p].wanted = proc[p].wanted
      /\ synced' = [u \in SsoUser |-> IF u \in users THEN NotSynced ELSE synced[u]]
    <2>1. web = "up" /\ web' = "up" /\ proc' \in [Process -> Processes]
        BY <1>3, Disturbed
    <2>2. ASSUME NEW p \in Process
          PROVE  /\ proc'[p].pc = proc[p].pc /\ proc'[p].role = proc[p].role
                 /\ proc'[p].user = proc[p].user /\ proc'[p].lost = proc[p].lost \cup rows
                 /\ proc'[p].wanted = proc[p].wanted
        BY <1>3, Disturbed
    <2>3. synced' = [u \in SsoUser |-> IF u \in users THEN NotSynced ELSE synced[u]]
        BY <1>3 DEF Change
    <2> QED BY <2>1, <2>2, <2>3
<1>5. NotSynced \in [sure : BOOLEAN, claims : SUBSET SsoGroup, kept : SUBSET Group]
    BY DEF NotSynced
<1>6. Typed'
    BY <1>2, <1>4, <1>5 DEF Rearranged, AccessInv, Typed, AccessTypeOK
<1>7. {"boot", "command"} \subseteq Process /\ Request \subseteq Process
    BY DEF Process
<1>8. proc'["boot"].pc = "idle"
    BY <1>4, <1>7 DEF AccessInv, Placed
<1>9. Placed'
    <2>1. DOMAIN account \ rows \subseteq DOMAIN account' /\ DOMAIN perms \ rows \subseteq DOMAIN perms'
        BY <1>2 DEF Rearranged
    <2> QED BY <1>4, <1>7, <1>8, <2>1 DEF AccessInv, Placed
<1> QED BY <1>6, <1>9 DEF AccessInv

LEMMA InvKill == ASSUME AccessInv, Kill PROVE AccessInv'
<1>1. /\ web' = "down" /\ proc' = [p \in Process |-> Idle]
      /\ UNCHANGED <<perms, mapping, account, claims, synced>>
    BY DEF Kill, database
<1>2. {"boot", "command"} \subseteq Process /\ Request \subseteq Process
    BY DEF Process
<1>3. Typed'
    BY <1>1, <1>2, IdleIs DEF AccessInv, Typed, AccessTypeOK
<1>4. Placed'
    BY <1>1, <1>2, IdleIs DEF Placed
<1> QED BY <1>3, <1>4 DEF AccessInv

\* Nothing but the process ends.
Fails(p) ==
    \/ FillFails(p) \/ PasswordFails(p)
    \/ p = "command" /\ RolesReset
    \/ p \in Request /\ (AccountTaken(p) \/ ReaderMissing(p) \/ AddFails(p) \/ SaveFails(p))

LEMMA FailsIs ==
    ASSUME NEW p \in Process, Fails(p)
    PROVE  Raise(p) /\ proc[p].pc # "idle"
BY DEF Fails, FillFails, PasswordFails, RolesReset, AccountTaken, ReaderMissing, AddFails,
       SaveFails, RolesEnsured

LEMMA EveryStep ==
    ASSUME [AccessNext]_accessVars
    PROVE  \/ UNCHANGED accessVars
           \/ \E p \in Process : EnsureRole(p) \/ FillRole(p)
           \/ \E p \in Process : SavePassword(p)
           \/ \E p \in Process : Fails(p)
           \/ BootMoves
           \/ \E r \in Request : SignInMoves(r)
           \/ \E r \in Request, u \in SsoUser : StartSignIn(r, u)
           \/ AccessChange
           \/ Kill
BY DEF AccessNext, AccessStep, Fails, BootMoves, SignInMoves, Process

LEMMA InvStep == ASSUME AccessInv, [AccessNext]_accessVars PROVE AccessInv'
<1>1. CASE UNCHANGED accessVars
    BY <1>1 DEF accessVars, database, outside, AccessInv, Typed, Placed, AccessTypeOK
<1>2. ASSUME NEW p \in Process, EnsureRole(p) \/ FillRole(p) PROVE AccessInv'
    BY <1>2, InvRoles
<1>3. ASSUME NEW p \in Process, SavePassword(p) PROVE AccessInv'
    BY <1>3, InvPassword
<1>4. ASSUME NEW p \in Process, Fails(p) PROVE AccessInv'
    BY <1>4, FailsIs, RaiseKeeps
<1>5. CASE BootMoves
    BY <1>5, InvBoot
<1>6. ASSUME NEW r \in Request, SignInMoves(r) PROVE AccessInv'
    BY <1>6, InvSignIn
<1>7. ASSUME NEW r \in Request, NEW u \in SsoUser, StartSignIn(r, u) PROVE AccessInv'
    BY <1>7, InvStart
<1>8. CASE AccessChange
    BY <1>8, InvChange
<1>9. CASE Kill
    BY <1>9, InvKill
<1> QED BY <1>1, <1>2, <1>3, <1>4, <1>5, <1>6, <1>7, <1>8, <1>9, EveryStep

\* What exists is made of what exists, for any number of users, groups and
\* sign-ins: no membership, mapping or running sign-in outlives its row
\* (sync_user(), models.SSOGroupMapping).
THEOREM AccessTypesAlwaysOK == AccessSpec => []AccessTypeOK
<1>1. AccessInv => AccessTypeOK
    BY DEF AccessInv, Typed
<1> QED BY <1>1, InvInitially, InvStep, PTL DEF AccessSpec

-----------------------------------------------------------------------------
(* Roles and the admin account are made in full, or somebody is at it or was  *)
(* stopped.                                                                   *)

\* Role or account x is on its way, or its creator ended half way.
Covered(x) == x \in halfMade \/ \E p \in Process : x \in Begun(proc[p])

AllCovered ==
    /\ \A role \in Range(Roles) \cap DOMAIN perms : perms[role] = "none" => Covered(role)
    /\ "admin" \in DOMAIN account /\ ~account["admin"].password => Covered("admin")

LEMMA MadeIs == MadeInFull <=> AllCovered
<1>1. \A x : x \in halfMade \cup UNION {Begun(proc[p]) : p \in Process} <=> Covered(x)
    BY DEF Covered
<1> QED BY <1>1 DEF MadeInFull, AllCovered

LEMMA BegunIs ==
    ASSUME NEW p, NEW x
    PROVE  x \in Begun(p) <=> \/ p.pc = "fill" /\ x = Roles[p.role] /\ x \notin p.lost
                              \/ p.pc = "password" /\ x = "admin" /\ x \notin p.lost
BY DEF Begun

\* One process goes on; what it had begun is covered as before.
LEMMA StaysCovered ==
    ASSUME NEW p \in Process, NEW new, DOMAIN proc = Process, proc' = [proc EXCEPT ![p] = new],
           NEW x, Covered(x), x \in Begun(proc[p]) => x \in Begun(new),
           x \in halfMade => x \in halfMade'
    PROVE  Covered(x)'
<1>1. proc'[p] = new /\ \A q \in Process \ {p} : proc'[q] = proc[q]
    OBVIOUS
<1>2. CASE x \in halfMade
    BY <1>2 DEF Covered
<1>3. ASSUME NEW q \in Process, x \in Begun(proc[q]) PROVE x \in Begun(proc'[q])
    BY <1>1, <1>3
<1>4. \A q \in Process : Begun(proc'[q]) = Begun(proc[q])'
    BY DEF Begun, Roles
<1> QED BY <1>2, <1>3, <1>4 DEF Covered

\* A process that has begun nothing goes on, and nothing gets incomplete.
LEMMA MadeElsewhere ==
    ASSUME AccessInv, AllCovered, NEW p \in Process, NEW new,
           proc' = [proc EXCEPT ![p] = new], Begun(proc[p]) = {},
           UNCHANGED <<perms, halfMade>>,
           "admin" \in DOMAIN account' /\ ~account'["admin"].password =>
               \/ "admin" \in DOMAIN account /\ ~account["admin"].password
               \/ "admin" \in Begun(new)
    PROVE  AllCovered'
<1>1. DOMAIN proc = Process
    BY DEF AccessInv, Typed
<1>2. \A x : Covered(x) => Covered(x)'
    BY <1>1, StaysCovered
<1>3. "admin" \in Begun(new) => Covered("admin")'
    <2>1. proc'[p] = new
        BY <1>1
    <2>2. Begun(proc[p])' = Begun(new)
        BY <2>1 DEF Begun, Roles
    <2> QED BY <2>2 DEF Covered
<1>4. Range(Roles)' = Range(Roles)
    BY DEF Range, Roles
<1> QED BY <1>2, <1>3, <1>4 DEF AllCovered

LEMMA CoveredRoles ==
    ASSUME AccessInv, AllCovered, NEW p \in Process, EnsureRole(p) \/ FillRole(p)
    PROVE  AllCovered'
<1>1. /\ DOMAIN proc = Process /\ proc \in [Process -> Processes]
      /\ Range(Roles)' = Range(Roles)
    BY DEF AccessInv, Typed, Range, Roles
<1>2. CASE EnsureRole(p)
    <2>1. PICK i \in 1..3, new \in Processes : Ensured(p, i, new)
        BY <1>1, <1>2, RoleCreated
    <2> USE <2>1 DEF Ensured
    <2>2. Begun(proc[p]) = {}
        BY <2>1, BegunIs
    <2>3. \A x : Covered(x) => Covered(x)'
        BY <1>1, <2>1, <2>2, StaysCovered
    <2>4. Roles[i] \notin DOMAIN perms => Roles[i] \in Begun(new)
        BY <2>1, BegunIs
    <2>5. Roles[i] \notin DOMAIN perms => Covered(Roles[i])'
        <3>1. proc'[p] = new
            BY <1>1, <2>1
        <3>2. Begun(proc[p])' = Begun(new)
            BY <3>1 DEF Begun, Roles
        <3>3. Roles[i]' = Roles[i]
            BY DEF Roles
        <3> QED BY <2>4, <3>2, <3>3 DEF Covered
    <2>6. \A role \in Range(Roles) \cap DOMAIN perms' : perms'[role] = "none" => Covered(role)'
        BY <2>1, <2>3, <2>5 DEF AllCovered
    <2> QED BY <1>1, <2>1, <2>3, <2>6 DEF AllCovered
<1>3. CASE FillRole(p)
    <2> DEFINE made == Roles[proc[p].role]
    <2>1. PICK new \in Processes :
              /\ proc[p].pc = "fill" /\ proc[p].role \in 1..3
              /\ DOMAIN perms' = DOMAIN perms
              /\ \A g \in DOMAIN perms : perms'[g] = IF g = made THEN "default" ELSE perms[g]
              /\ proc' = [proc EXCEPT ![p] = new]
              /\ halfMade' = halfMade \ {made}
              /\ UNCHANGED account
        BY <1>3, RoleFilled
    <2>2. \A x : x \in Begun(proc[p]) => x = made
        BY <2>1, BegunIs
    <2>3. made # "admin"
        BY <2>1, RolesAre, AccessAssumption DEF User
    <2> HIDE DEF made
    <2>4. \A x : Covered(x) /\ x # made => Covered(x)'
        BY <1>1, <2>1, <2>2, StaysCovered
    <2> QED BY <1>1, <2>1, <2>3, <2>4 DEF AllCovered
<1> QED BY <1>2, <1>3

LEMMA CoveredBoot == ASSUME AccessInv, AllCovered, BootMoves PROVE AllCovered'
<1>1. {"boot", "command"} \subseteq Process
    BY DEF Process
<1>2. PICK p \in {"boot", "command"}, new \in Processes :
         /\ proc' = [proc EXCEPT ![p] = new]
         /\ proc[p].pc \in {"idle", "ensure"}
         /\ UNCHANGED account \/ (new.pc = "password" /\ new.lost = {})
         /\ UNCHANGED <<perms, halfMade>>
    BY BootMovesAre
<1>3. Begun(proc[p]) = {}
    BY <1>2, BegunIs
<1>4. UNCHANGED account \/ "admin" \in Begun(new)
    BY <1>2, BegunIs
<1> QED BY <1>1, <1>2, <1>3, <1>4, MadeElsewhere

LEMMA CoveredPassword ==
    ASSUME AccessInv, AllCovered, NEW p \in Process, SavePassword(p) PROVE AllCovered'
<1>1. /\ proc[p].pc = "password"
      /\ account'["admin"].password = TRUE
      /\ proc' = [proc EXCEPT ![p] = Idle]
      /\ halfMade' = halfMade \ {"admin"}
      /\ UNCHANGED perms
    BY PasswordSet
<1>2. \A x : x \in Begun(proc[p]) => x = "admin"
    BY <1>1, BegunIs
<1>3. DOMAIN proc = Process
    BY DEF AccessInv, Typed
<1>4. \A x : Covered(x) /\ x # "admin" => Covered(x)'
    BY <1>1, <1>2, <1>3, StaysCovered
<1>5. "admin" \notin Range(Roles) /\ Range(Roles)' = Range(Roles)
    BY RolesAre, AccessAssumption DEF User, Range, Roles
<1> QED BY <1>1, <1>4, <1>5 DEF AllCovered

LEMMA CoveredSignIn ==
    ASSUME AccessInv, AllCovered, NEW r \in Request, SignInMoves(r) PROVE AllCovered'
<1>1. r \in Process /\ DOMAIN proc = Process
    BY DEF AccessInv, Typed, Process
<1>2. /\ proc[r].pc \in {"create", "ensure", "add", "remove", "admins", "save"}
      /\ UNCHANGED <<perms, halfMade>>
    BY AccountCreated, GroupsRead, GroupsAdded, GroupsRemoved, AdminsRead, UserSaved
       DEF SignInMoves, SignInFrame
<1>3. Begun(proc[r]) = {}
    BY <1>2, BegunIs
<1>4. "admin" \in DOMAIN account' =>
          "admin" \in DOMAIN account /\ account'["admin"].password = account["admin"].password
    <2>1. CASE ReadGroups(r) \/ ReadAdmins(r)
        BY <2>1, GroupsRead, AdminsRead
    <2>2. CASE AddGroups(r)
        BY <2>2, GroupsAdded, GroupsSavedAre
    <2>3. CASE RemoveGroups(r)
        BY <2>3, GroupsRemoved, GroupsSavedAre
    <2>4. CASE SaveUser(r)
        BY <2>4, UserSaved
    <2>5. CASE CreateAccount(r)
        BY <2>5, AccountCreated, AccessAssumption
    <2> QED BY <2>1, <2>2, <2>3, <2>4, <2>5 DEF SignInMoves
<1>5. \E new : proc' = [proc EXCEPT ![r] = new]
    <2>1. CASE SaveUser(r)
        BY <2>1 DEF SaveUser
    <2>2. CASE ReadGroups(r)
        BY <2>2, GroupsRead DEF SignInFrame
    <2>3. CASE AddGroups(r)
        BY <2>3, GroupsAdded DEF SignInFrame
    <2>4. CASE RemoveGroups(r)
        BY <2>4, GroupsRemoved DEF SignInFrame
    <2>5. CASE ReadAdmins(r)
        BY <2>5, AdminsRead DEF SignInFrame
    <2>6. CASE CreateAccount(r)
        BY <2>6, AccountCreated DEF SignInFrame
    <2> QED BY <2>1, <2>2, <2>3, <2>4, <2>5, <2>6 DEF SignInMoves
<1> QED BY <1>1, <1>2, <1>3, <1>4, <1>5, MadeElsewhere

LEMMA CoveredStart ==
    ASSUME AccessInv, AllCovered, NEW r \in Request, NEW u \in SsoUser, StartSignIn(r, u)
    PROVE  AllCovered'
<1>1. /\ proc[r].pc = "idle"
      /\ \A p \in Process \ {r} :
            proc'[p] = IF Agree(u, claims[u]) THEN proc[p] ELSE Unsure(proc[p], {u})
      /\ UNCHANGED <<perms, account, halfMade>>
    BY SignInStarted DEF Begins
<1>2. \A p \in Process \ {r} :
          /\ proc'[p].pc = proc[p].pc /\ proc'[p].role = proc[p].role
          /\ proc'[p].lost = proc[p].lost
    BY <1>1, UnsureIs DEF AccessInv, Typed
<1>3. \A p \in Process : \A x : x \in Begun(proc[p]) => x \in Begun(proc[p])'
    <2> SUFFICES ASSUME NEW x, NEW p \in Process, x \in Begun(proc[p]) PROVE x \in Begun(proc'[p])
        BY DEF Begun, Roles
    <2>1. p # r
        BY <1>1, BegunIs
    <2> QED BY <1>2, <2>1, BegunIs
<1>4. \A x : Covered(x) => Covered(x)'
    BY <1>1, <1>3 DEF Covered
<1>5. Range(Roles)' = Range(Roles)
    BY DEF Range, Roles
<1> QED BY <1>1, <1>4, <1>5 DEF AllCovered

LEMMA CoveredChange == ASSUME AccessInv, AllCovered, AccessChange PROVE AllCovered'
<1> SUFFICES ASSUME NEW users, NEW rows \in SUBSET (User \cup Group),
                    Rearranged(users, rows)
             PROVE  AllCovered'
    BY EveryChange
<1>1. Change(users, rows)
    BY DEF Rearranged
<1>2. halfMade' = halfMade \ rows
    BY <1>1 DEF Change
<1>3. ASSUME NEW p \in Process
      PROVE  /\ proc'[p].pc = proc[p].pc /\ proc'[p].role = proc[p].role
             /\ proc'[p].lost = proc[p].lost \cup rows
    BY ONLY <1>1, Disturbed, AccessInv
<1>4. ASSUME NEW x, x \notin rows, Covered(x) PROVE Covered(x)'
    <2>1. ASSUME NEW p \in Process, x \in Begun(proc[p]) PROVE x \in Begun(proc'[p])
        BY <1>3, <1>4, <2>1, BegunIs
    <2>2. \A p \in Process : Begun(proc'[p]) = Begun(proc[p])'
        BY DEF Begun, Roles
    <2> QED BY <1>2, <1>4, <2>1, <2>2 DEF Covered
<1>5. Range(Roles)' = Range(Roles)
    BY DEF Range, Roles
<1> QED BY <1>4, <1>5 DEF AllCovered, Rearranged

LEMMA CoveredKill == ASSUME AllCovered, Kill PROVE AllCovered'
<1>1. /\ halfMade' = halfMade \cup UNION {Begun(proc[p]) : p \in Process}
      /\ UNCHANGED <<perms, account>>
    BY DEF Kill, database
<1>2. \A x : Covered(x) => x \in halfMade'
    BY <1>1 DEF Covered
<1>3. Range(Roles)' = Range(Roles)
    BY DEF Range, Roles
<1> QED BY <1>1, <1>2, <1>3 DEF AllCovered, Covered

LEMMA CoveredStep == ASSUME AccessInv, AllCovered, [AccessNext]_accessVars PROVE AllCovered'
<1>1. CASE UNCHANGED accessVars
    <2>1. UNCHANGED <<perms, account, proc, halfMade>>
        BY <1>1 DEF accessVars, database
    <2> QED BY <2>1 DEF AllCovered, Covered, Begun, Roles, Range
<1>2. ASSUME NEW p \in Process, EnsureRole(p) \/ FillRole(p) PROVE AllCovered'
    BY <1>2, CoveredRoles
<1>3. ASSUME NEW p \in Process, SavePassword(p) PROVE AllCovered'
    BY <1>3, CoveredPassword
<1>4. ASSUME NEW p \in Process, Fails(p) PROVE AllCovered'
    <2>1. Raise(p)
        BY <1>4, FailsIs
    <2>2. Begun(proc[p]) = {}
        BY <1>4, BegunIs DEF Fails, FillFails, PasswordFails, RolesReset, AccountTaken,
                             ReaderMissing, AddFails, SaveFails, RolesEnsured
    <2> QED BY <2>1, <2>2, MadeElsewhere DEF Raise, database
<1>5. CASE BootMoves
    BY <1>5, CoveredBoot
<1>6. ASSUME NEW r \in Request, SignInMoves(r) PROVE AllCovered'
    BY <1>6, CoveredSignIn
<1>7. ASSUME NEW r \in Request, NEW u \in SsoUser, StartSignIn(r, u) PROVE AllCovered'
    BY <1>7, CoveredStart
<1>8. CASE AccessChange
    BY <1>8, CoveredChange
<1>9. CASE Kill
    BY <1>9, CoveredKill
<1> QED BY <1>1, <1>2, <1>3, <1>4, <1>5, <1>6, <1>7, <1>8, <1>9, EveryStep

\* However boots, sign-ins, edits and kills interleave, a role has no
\* permissions, or the admin no password, only while its creator is at work
\* or because it ended in between (ensure_default_groups(), bootstrap_admin).
THEOREM AlwaysMadeInFull == AccessSpec => []MadeInFull
<1>1. AccessInit => AllCovered
    BY DEF AccessInit, AllCovered
<1>2. AccessInv /\ AllCovered /\ [AccessNext]_accessVars => (AccessInv /\ AllCovered)'
    BY InvStep, CoveredStep
<1> QED BY <1>1, <1>2, InvInitially, MadeIs, PTL DEF AccessSpec

-----------------------------------------------------------------------------
(* Sign-ins that nothing comes between but others with the same claims. *)

\* What the sign-ins of a user that go by these claims do to his groups.
Gentle(u, claimed) ==
    LET old == account[u].groups
        new == account'[u].groups
    IN  u \in DOMAIN account =>
            /\ u \in DOMAIN account'
            /\ ByHand(new) = ByHand(old)
            /\ old \cap Wanted(claimed) \subseteq new
            /\ new \subseteq old \cup Wanted(claimed)

\* Agree(u, claimed) after the step.
AgreeAfter(u, claimed) ==
    \A q \in Request : proc'[q].pc # "idle" /\ proc'[q].user = u =>
        proc'[q].sure /\ proc'[q].claims = claimed

LEMMA SameIsGentle ==
    ASSUME NEW u, NEW claimed,
           u \in DOMAIN account => u \in DOMAIN account' /\ account'[u].groups = account[u].groups
    PROVE  Gentle(u, claimed)
BY DEF Gentle

LEMMA SameMappings ==
    ASSUME UNCHANGED mapping
    PROVE  /\ \A c : Wanted(c)' = Wanted(c)
           /\ Managed' = Managed /\ \A groups : ByHand(groups)' = ByHand(groups)
BY DEF Wanted, Managed, ByHand, Range

LEMMA ByHandIs ==
    /\ \A groups : ByHand(groups) = groups \ Managed
    /\ \A groups : ByHand(groups) \subseteq groups
BY DEF ByHand, Managed

\* How far a sign-in is, after a statement of another one.
LEMMA SettlingStays ==
    ASSUME NEW p, Settling(p), UNCHANGED mapping, Gentle(p.user, p.claims),
           NEW r, proc'[r] = p
    PROVE  Settling(proc[r])'
<1>1. /\ \A c : Wanted(c)' = Wanted(c)
      /\ Managed' = Managed /\ \A groups : ByHand(groups)' = ByHand(groups)
    BY SameMappings
<1>2. \A groups : ByHand(groups) \subseteq groups
    BY ByHandIs
<1>3. Settling(p)'
    <2>1. CASE p.pc \in {"add", "remove", "admins", "save"}
        <3> DEFINE old == account[p.user].groups
                   new == account'[p.user].groups
        <3>1. /\ p.user \notin p.lost /\ p.user \in DOMAIN account
              /\ p.wanted = Wanted(p.claims) /\ p.lost \cap Group = {}
              /\ ByHand(old) = ByHand(p.current)
              /\ p.pc \in {"add", "remove"} => p.managed = Managed /\ old \subseteq p.current \cup p.wanted
              /\ p.pc = "add" => p.wanted \cap p.current \subseteq old
              /\ p.pc \in {"remove", "admins", "save"} => p.wanted \subseteq old
              /\ p.pc \in {"admins", "save"} => old \subseteq ByHand(p.current) \cup p.wanted
              /\ p.pc = "save" => (p.admins <=> "Admins" \in old)
            BY <2>1 DEF Settling
        <3>2. /\ p.user \in DOMAIN account'
              /\ ByHand(new) = ByHand(old)
              /\ old \cap p.wanted \subseteq new /\ new \subseteq old \cup p.wanted
            BY <3>1 DEF Gentle
        <3> HIDE DEF old, new
        <3>3. /\ p.pc \in {"add", "remove"} => new \subseteq p.current \cup p.wanted
              /\ p.pc = "add" => p.wanted \cap p.current \subseteq new
              /\ p.pc \in {"remove", "admins", "save"} => p.wanted \subseteq new
              /\ p.pc \in {"admins", "save"} => new \subseteq ByHand(p.current) \cup p.wanted
            BY <3>1, <3>2
        <3>4. p.pc = "save" => new = old
            BY <1>2, <3>1, <3>2
        <3> QED BY <1>1, <2>1, <3>1, <3>2, <3>3, <3>4 DEF Settling, old, new
    <2>2. CASE p.pc \notin {"add", "remove", "admins", "save"}
        BY <2>2 DEF Settling, Gentle
    <2> QED BY <2>1, <2>2
<1> QED BY <1>3 DEF Settling

LEMMA SettledStays ==
    ASSUME NEW u, Settled(u), UNCHANGED mapping, synced'[u] = synced[u],
           synced[u].sure => /\ Gentle(u, synced[u].claims)
                             /\ account'[u].superuser = account[u].superuser
                             /\ AgreeAfter(u, synced[u].claims)
    PROVE  Settled(u)'
<1> SUFFICES ASSUME synced[u].sure PROVE Settled(u)'
    BY DEF Settled
<1> DEFINE wanted == Wanted(synced[u].claims)
           kept == synced[u].kept
           old == account[u].groups
           new == account'[u].groups
<1>1. /\ u \in DOMAIN account /\ kept = ByHand(kept) /\ old = kept \cup wanted
      /\ account[u].superuser <=> "Admins" \in old
    BY DEF Settled
<1>2. /\ u \in DOMAIN account' /\ ByHand(new) = ByHand(old)
      /\ old \cap wanted \subseteq new /\ new \subseteq old \cup wanted
    BY <1>1 DEF Gentle
<1>3. ByHand(kept) \subseteq ByHand(old)
    BY <1>1 DEF ByHand
<1>4. new = old
    BY <1>1, <1>2, <1>3, ByHandIs
<1>5. wanted' = wanted /\ kept' = kept /\ ByHand(kept)' = ByHand(kept)
    BY DEF Wanted, ByHand, Range
<1>6. Agree(u, synced[u].claims)'
    BY DEF Agree, SignIns, AgreeAfter
<1> QED BY <1>1, <1>2, <1>4, <1>5, <1>6 DEF Settled

\* Nothing of a sign-in changes, and no user of the provider.
LEMMA SettleElsewhere ==
    ASSUME AccessInv, SettleInv, UNCHANGED <<mapping, synced>>,
           \A q \in Request : proc'[q] = proc[q],
           \A u \in DOMAIN account \cap SsoUser : u \in DOMAIN account' /\ account'[u] = account[u]
    PROVE  SettleInv'
<1>1. ASSUME NEW r \in Request PROVE Undisturbed(r)'
    <2> SUFFICES ASSUME proc[r].sure
                 PROVE  proc'[r].pc # "idle" /\ Together(r)' /\ Settling(proc[r])'
        BY DEF Undisturbed
    <2>1. proc[r].pc # "idle" /\ Together(r) /\ Settling(proc[r])
        BY DEF SettleInv, Undisturbed
    <2>2. proc[r].user \in SsoUser
        BY <2>1 DEF AccessInv, Placed
    <2>3. Together(r)'
        BY <2>1 DEF Together, Agree, SignIns
    <2>4. Gentle(proc[r].user, proc[r].claims)
        BY <2>2, SameIsGentle
    <2>5. Settling(proc[r])'
        BY <2>1, <2>4, SettlingStays
    <2> QED BY <2>1, <2>3, <2>5
<1>2. ASSUME NEW u \in SsoUser PROVE Settled(u)'
    <2>1. Settled(u) /\ synced'[u] = synced[u]
        BY DEF SettleInv
    <2>2. synced[u].sure => u \in DOMAIN account /\ AgreeAfter(u, synced[u].claims)
        BY <2>1 DEF Settled, Agree, SignIns, AgreeAfter
    <2>3. Gentle(u, synced[u].claims)
        BY SameIsGentle
    <2> QED BY <2>1, <2>2, <2>3, SettledStays
<1> QED BY <1>1, <1>2 DEF SettleInv

\* A statement of one sign-in, that may save its user.
LEMMA SettleMoves ==
    ASSUME AccessInv, SettleInv, NEW r \in Request, proc[r].pc # "idle", NEW new \in Processes,
           proc' = [proc EXCEPT ![r] = new], new.user = proc[r].user, new.sure = proc[r].sure,
           new.claims = proc[r].claims, new.pc # "idle", UNCHANGED <<mapping, synced>>,
           \A u \in DOMAIN account :
              /\ u \in DOMAIN account' /\ account'[u].superuser = account[u].superuser
              /\ u # proc[r].user => account'[u] = account[u],
           proc[r].sure /\ Settling(proc[r]) =>
              Gentle(proc[r].user, proc[r].claims) /\ Settling(new)'
    PROVE  SettleInv'
<1>1. /\ proc'[r] = new /\ \A q \in Request \ {r} : proc'[q] = proc[q]
    BY DEF AccessInv, Typed, Process
<1>2. /\ proc[r].sure => Together(r) /\ Settling(proc[r])
      /\ proc[r].sure => Gentle(proc[r].user, proc[r].claims) /\ Settling(new)'
    BY DEF SettleInv, Undisturbed
<1>3. ASSUME NEW u, NEW c, Agree(u, c) PROVE AgreeAfter(u, c)
    BY <1>1, <1>3 DEF Agree, SignIns, AgreeAfter
<1>4. ASSUME NEW u, NEW c, Agree(u, c) PROVE Gentle(u, c)
    <2>1. CASE u = proc[r].user
        BY <1>2, <1>4, <2>1 DEF Agree, SignIns
    <2>2. CASE u # proc[r].user
        BY <2>2, SameIsGentle
    <2> QED BY <2>1, <2>2
<1>5. ASSUME NEW q \in Request PROVE Undisturbed(q)'
    <2> SUFFICES ASSUME proc'[q].sure
                 PROVE  proc'[q].pc # "idle" /\ Together(q)' /\ Settling(proc[q])'
        BY DEF Undisturbed
    <2>1. proc[q].sure /\ proc[q].pc # "idle" /\ Together(q) /\ Settling(proc[q])
        BY <1>1 DEF SettleInv, Undisturbed
    <2>2. Together(q)'
        <3>1. AgreeAfter(proc[q].user, proc[q].claims)
            BY <1>3, <2>1 DEF Together
        <3>2. proc'[q].user = proc[q].user /\ proc'[q].claims = proc[q].claims
            BY <1>1
        <3> QED BY <3>1, <3>2 DEF Together, Agree, SignIns, AgreeAfter
    <2>3. CASE q = r
        <3>1. Settling(new)' /\ new = proc'[r]
            BY <1>1, <1>2, <2>1, <2>3
        <3>2. Settling(proc[r])'
            BY <3>1 DEF Settling
        <3> QED BY <1>1, <2>2, <2>3, <3>2
    <2>4. CASE q # r
        <3>1. Gentle(proc[q].user, proc[q].claims)
            BY <1>4, <2>1 DEF Together
        <3>2. Settling(proc[q])'
            BY <1>1, <2>1, <2>4, <3>1, SettlingStays
        <3> QED BY <1>1, <2>1, <2>2, <2>4, <3>2
    <2> QED BY <2>3, <2>4
<1>6. ASSUME NEW u \in SsoUser PROVE Settled(u)'
    <2>1. Settled(u) /\ synced'[u] = synced[u]
        BY DEF SettleInv
    <2>2. synced[u].sure => u \in DOMAIN account /\ Agree(u, synced[u].claims)
        BY <2>1 DEF Settled
    <2> QED BY <1>1, <1>3, <1>4, <2>1, <2>2, SettledStays
<1> QED BY <1>5, <1>6 DEF SettleInv

LEMMA SettleRoles ==
    ASSUME AccessInv, SettleInv, NEW p \in Process, EnsureRole(p) \/ FillRole(p)
    PROVE  SettleInv'
<1>1. \E new \in Processes :
         /\ proc[p].pc \in {"ensure", "fill"}
         /\ proc' = [proc EXCEPT ![p] = new]
         /\ new.pc \in {"ensure", "fill"} /\ new.lost \subseteq proc[p].lost
         /\ new.user = proc[p].user /\ new.sure = proc[p].sure /\ new.claims = proc[p].claims
         /\ UNCHANGED <<mapping, account, synced>>
    <2>1. proc \in [Process -> Processes]
        BY DEF AccessInv, Typed
    <2>2. CASE EnsureRole(p)
        BY <2>1, <2>2, RoleCreated DEF Ensured
    <2>3. CASE FillRole(p)
        BY <2>3, RoleFilled
    <2> QED BY <2>2, <2>3
<1>2. PICK new \in Processes :
         /\ proc[p].pc \in {"ensure", "fill"}
         /\ proc' = [proc EXCEPT ![p] = new]
         /\ new.pc \in {"ensure", "fill"} /\ new.lost \subseteq proc[p].lost
         /\ new.user = proc[p].user /\ new.sure = proc[p].sure /\ new.claims = proc[p].claims
         /\ UNCHANGED <<mapping, account, synced>>
    BY <1>1
<1>3. \A q \in Process \ {p} : proc'[q] = proc[q]
    BY <1>2 DEF AccessInv, Typed
<1>4. CASE p \in {"boot", "command"}
    <2>1. \A q \in Request : proc'[q] = proc[q]
        BY <1>3, <1>4, AccessAssumption DEF Process
    <2> QED BY <1>2, <2>1, SettleElsewhere
<1>5. CASE p \in Request
    <2>1. Settling(proc[p]) => Settling(new)'
        BY <1>2 DEF Settling
    <2>2. Gentle(proc[p].user, proc[p].claims)
        BY <1>2, SameIsGentle
    <2> QED BY <1>2, <1>5, <2>1, <2>2, SettleMoves
<1> QED BY <1>4, <1>5 DEF Process

LEMMA SettleBoot ==
    ASSUME AccessInv, SettleInv, BootMoves \/ \E p \in Process : SavePassword(p) PROVE SettleInv'
<1>1. \E p \in {"boot", "command"}, new \in Processes :
         /\ proc' = [proc EXCEPT ![p] = new]
         /\ UNCHANGED <<mapping, synced>>
         /\ \A u \in DOMAIN account \ {"admin"} : u \in DOMAIN account' /\ account'[u] = account[u]
    <2>1. CASE BootMoves
        BY <2>1, BootMovesAre
    <2>2. ASSUME NEW p \in Process, SavePassword(p)
          PROVE  /\ p \in {"boot", "command"} /\ proc' = [proc EXCEPT ![p] = Idle]
                 /\ UNCHANGED <<mapping, synced>>
                 /\ \A u \in DOMAIN account \ {"admin"} :
                       u \in DOMAIN account' /\ account'[u] = account[u]
        BY <2>2, PasswordSet
    <2> QED BY <2>1, <2>2, IdleIs
<1>2. \A q \in Request : proc'[q] = proc[q]
    BY <1>1, AccessAssumption DEF AccessInv, Typed, Process
<1> QED BY <1>1, <1>2, SettleElsewhere, AccessAssumption

\* The statements between the account and the row of the user.
LEMMA SettleGroups ==
    ASSUME AccessInv, SettleInv, NEW r \in Request,
           CreateAccount(r) \/ ReadGroups(r) \/ AddGroups(r) \/ RemoveGroups(r) \/ ReadAdmins(r)
    PROVE  SettleInv'
<1>0. \A c : Wanted(c) \subseteq Managed
    BY Refer DEF AccessInv, Managed
<1>1. ASSUME UNCHANGED mapping
      PROVE  /\ \A c : Wanted(c)' = Wanted(c)
             /\ Managed' = Managed /\ \A groups : ByHand(groups)' = ByHand(groups)
    BY <1>1, SameMappings
<1>2. CASE CreateAccount(r)
    <2>1. PICK new \in Processes :
              /\ SignInFrame(r, new)
              /\ new.pc = "ensure" /\ new.lost = proc[r].lost \ {proc[r].user}
        BY <1>2, AccountCreated
    <2>2. /\ proc[r].pc = "create" /\ proc[r].user \notin DOMAIN account
          /\ DOMAIN account' = DOMAIN account \cup {proc[r].user}
          /\ \A u \in DOMAIN account : account'[u] = account[u]
          /\ UNCHANGED synced
        BY <1>2, AccountCreated
    <2>3. Settling(new)'
        BY <2>1, <2>2 DEF SignInFrame, Settling
    <2>4. Gentle(proc[r].user, proc[r].claims)
        BY <2>2 DEF Gentle
    <2> QED BY <2>1, <2>2, <2>3, <2>4, SettleMoves DEF SignInFrame
<1>3. CASE ReadGroups(r)
    <2>1. PICK new \in Processes :
              /\ SignInFrame(r, new)
              /\ proc[r].pc = "ensure" /\ new.pc = "add" /\ new.lost = {}
              /\ new.managed = Managed /\ new.wanted = Wanted(proc[r].claims)
              /\ new.current = account[proc[r].user].groups
              /\ proc[r].user \in DOMAIN account \ proc[r].lost
              /\ UNCHANGED <<account, synced>>
        BY <1>3, GroupsRead
    <2>2. Settling(new)'
        BY <1>1, <2>1 DEF SignInFrame, Settling
    <2>3. Gentle(proc[r].user, proc[r].claims)
        BY <2>1, SameIsGentle
    <2> QED BY <2>1, <2>2, <2>3, SettleMoves DEF SignInFrame
<1>4. CASE AddGroups(r)
    <2> DEFINE old == account[proc[r].user].groups
               groups == old \cup (proc[r].wanted \ proc[r].current)
    <2>1. PICK new \in Processes :
              /\ SignInFrame(r, new)
              /\ new.pc = "remove" /\ new.lost = proc[r].lost
              /\ new.managed = proc[r].managed /\ new.wanted = proc[r].wanted
              /\ new.current = proc[r].current
        BY <1>4, GroupsAdded
    <2>2. /\ proc[r].pc = "add" /\ GroupsSaved(r, groups) /\ UNCHANGED synced
          /\ proc[r].user \notin proc[r].lost => groups \subseteq DOMAIN perms
        BY <1>4, GroupsAdded
    <2>3. groups = old \cup (proc[r].wanted \ proc[r].current)
        OBVIOUS
    <2>4. Settling(proc[r]) =>
             /\ proc[r].user \in DOMAIN account \ proc[r].lost
             /\ proc[r].wanted = Wanted(proc[r].claims) /\ proc[r].lost \cap Group = {}
             /\ proc[r].managed = Managed
             /\ ByHand(old) = ByHand(proc[r].current)
             /\ old \subseteq proc[r].current \cup proc[r].wanted
             /\ proc[r].wanted \cap proc[r].current \subseteq old
        BY <2>2 DEF Settling
    <2> HIDE DEF groups, old
    <2>5. /\ DOMAIN account' = DOMAIN account
          /\ \A u \in DOMAIN account : account'[u].superuser = account[u].superuser
          /\ \A u \in DOMAIN account : u # proc[r].user => account'[u] = account[u]
          /\ proc[r].user \notin proc[r].lost => account'[proc[r].user].groups = groups
        BY <2>2, GroupsSavedAre
    <2>6. Settling(proc[r]) => /\ ByHand(groups) = ByHand(old)
                               /\ groups \subseteq old \cup proc[r].wanted /\ old \subseteq groups
                               /\ proc[r].wanted \subseteq groups
                               /\ groups \subseteq proc[r].current \cup proc[r].wanted
        BY <1>0, <2>3, <2>4, ByHandIs
    <2>7. Settling(proc[r]) => Gentle(proc[r].user, proc[r].claims)
        BY <2>4, <2>5, <2>6 DEF Gentle, old
    <2>8. Settling(proc[r]) => Settling(new)'
        BY <1>1, <2>1, <2>4, <2>5, <2>6 DEF SignInFrame, Settling
    <2> QED BY <2>1, <2>2, <2>5, <2>7, <2>8, SettleMoves DEF SignInFrame
<1>5. CASE RemoveGroups(r)
    <2> DEFINE old == account[proc[r].user].groups
               groups == old \ Revoked(proc[r])
    <2>1. PICK new \in Processes :
              /\ SignInFrame(r, new)
              /\ new.pc = "admins" /\ new.lost = proc[r].lost
              /\ new.wanted = proc[r].wanted /\ new.current = proc[r].current
        BY <1>5, GroupsRemoved
    <2>2. /\ proc[r].pc = "remove" /\ GroupsSaved(r, groups) /\ UNCHANGED synced
          /\ proc[r].user \notin proc[r].lost => groups \subseteq DOMAIN perms
        BY <1>5, GroupsRemoved
    <2>3. Settling(proc[r]) =>
             /\ proc[r].user \in DOMAIN account \ proc[r].lost
             /\ proc[r].wanted = Wanted(proc[r].claims) /\ proc[r].lost \cap Group = {}
             /\ proc[r].managed = Managed
             /\ ByHand(old) = ByHand(proc[r].current)
             /\ old \subseteq proc[r].current \cup proc[r].wanted
             /\ proc[r].wanted \subseteq old
        BY <2>2 DEF Settling
    <2>4. proc[r].managed = Managed /\ proc[r].lost \cap Group = {} =>
              groups = old \ ((Managed \ proc[r].wanted) \cap proc[r].current)
        BY Refer DEF Revoked, AccessInv
    <2> HIDE DEF groups, old
    <2>5. /\ DOMAIN account' = DOMAIN account
          /\ \A u \in DOMAIN account : account'[u].superuser = account[u].superuser
          /\ \A u \in DOMAIN account : u # proc[r].user => account'[u] = account[u]
          /\ proc[r].user \notin proc[r].lost => account'[proc[r].user].groups = groups
        BY <2>2, GroupsSavedAre
    <2>6. Settling(proc[r]) => /\ ByHand(groups) = ByHand(old)
                               /\ groups \subseteq old
                               /\ proc[r].wanted \subseteq groups
                               /\ groups \subseteq ByHand(proc[r].current) \cup proc[r].wanted
        BY <2>3, <2>4, ByHandIs
    <2>7. Settling(proc[r]) => Gentle(proc[r].user, proc[r].claims)
        BY <2>3, <2>5, <2>6 DEF Gentle, old
    <2>8. Settling(proc[r]) => Settling(new)'
        BY <1>1, <2>1, <2>3, <2>5, <2>6 DEF SignInFrame, Settling
    <2> QED BY <2>1, <2>2, <2>5, <2>7, <2>8, SettleMoves DEF SignInFrame
<1>6. CASE ReadAdmins(r)
    <2>1. PICK new \in Processes :
              /\ SignInFrame(r, new)
              /\ new.pc = "save" /\ new.lost = proc[r].lost
              /\ new.wanted = proc[r].wanted /\ new.current = proc[r].current
              /\ new.admins <=> /\ proc[r].user \notin proc[r].lost
                                /\ "Admins" \in account[proc[r].user].groups
        BY <1>6, AdminsRead
    <2>2. proc[r].pc = "admins" /\ UNCHANGED <<account, synced>>
        BY <1>6, AdminsRead
    <2>3. Settling(proc[r]) => Settling(new)'
        BY <1>1, <2>1, <2>2 DEF SignInFrame, Settling
    <2>4. Gentle(proc[r].user, proc[r].claims)
        BY <2>2, SameIsGentle
    <2> QED BY <2>1, <2>2, <2>3, <2>4, SettleMoves DEF SignInFrame
<1> QED BY <1>2, <1>3, <1>4, <1>5, <1>6

\* One sign-in ends; the others go on as before.
LEMMA OthersSettle ==
    ASSUME AccessInv, SettleInv, NEW r \in Request, proc' = [proc EXCEPT ![r] = Idle],
           UNCHANGED mapping,
           \A u \in DOMAIN account :
              u \in DOMAIN account' /\ account'[u].groups = account[u].groups
    PROVE  /\ \A q \in Request : Undisturbed(q)'
           /\ \A u, c : Agree(u, c) => AgreeAfter(u, c)
<1>1. /\ proc'[r] = Idle /\ \A p \in Request \ {r} : proc'[p] = proc[p]
    BY DEF AccessInv, Typed, Process
<1>2. ASSUME NEW u, NEW c, Agree(u, c) PROVE AgreeAfter(u, c)
    BY <1>1, <1>2, IdleIs DEF Agree, SignIns, AgreeAfter
<1>3. ASSUME NEW q \in Request, proc'[q].sure
      PROVE  proc'[q].pc # "idle" /\ Together(q)' /\ Settling(proc[q])'
    <2>1. q # r /\ proc'[q] = proc[q]
        BY <1>1, <1>3, IdleIs
    <2>2. proc[q].pc # "idle" /\ Together(q) /\ Settling(proc[q])
        BY <1>3, <2>1 DEF SettleInv, Undisturbed
    <2>3. AgreeAfter(proc[q].user, proc[q].claims)
        BY <1>2, <2>2 DEF Together
    <2>4. Together(q)'
        BY <2>1, <2>3 DEF Together, Agree, SignIns, AgreeAfter
    <2>5. Gentle(proc[q].user, proc[q].claims)
        BY SameIsGentle
    <2>6. Settling(proc[q])'
        BY <2>1, <2>2, <2>5, SettlingStays
    <2> QED BY <2>1, <2>2, <2>4, <2>6
<1>4. \A q \in Request : Undisturbed(q)'
    BY <1>3 DEF Undisturbed
<1> QED BY <1>2, <1>4

LEMMA SettleRaise ==
    ASSUME AccessInv, SettleInv, NEW p \in Process, Raise(p)
    PROVE  SettleInv'
<1>1. proc' = [proc EXCEPT ![p] = Idle] /\ UNCHANGED <<mapping, account, synced>>
    BY DEF Raise, database
<1>2. CASE p \in {"boot", "command"}
    <2>1. \A q \in Request : proc'[q] = proc[q]
        BY <1>1, <1>2, AccessAssumption DEF AccessInv, Typed, Process
    <2> QED BY <1>1, <2>1, SettleElsewhere
<1>3. CASE p \in Request
    <2>1. /\ \A q \in Request : Undisturbed(q)'
          /\ \A u, c : Agree(u, c) => AgreeAfter(u, c)
        BY <1>1, <1>3, OthersSettle
    <2>2. ASSUME NEW u \in SsoUser PROVE Settled(u)'
        <3>1. Settled(u) /\ (synced[u].sure => Agree(u, synced[u].claims))
            BY DEF SettleInv, Settled
        <3>2. Gentle(u, synced[u].claims)
            BY <1>1, SameIsGentle
        <3> QED BY <1>1, <2>1, <3>1, <3>2, SettledStays
    <2> QED BY <2>1, <2>2 DEF SettleInv
<1> QED BY <1>2, <1>3 DEF Process

\* The sign-in that saves the row of its user has settled him.
LEMMA SettleSave == ASSUME AccessInv, SettleInv, NEW r \in Request, SaveUser(r) PROVE SettleInv'
<1> DEFINE p == proc[r]
<1>1. /\ p.pc = "save" /\ p.user \notin p.lost /\ p.user \in DOMAIN account
      /\ proc' = [proc EXCEPT ![r] = Idle]
      /\ DOMAIN account' = DOMAIN account
      /\ \A u \in DOMAIN account : /\ account'[u].groups = account[u].groups
                                   /\ u # p.user => account'[u] = account[u]
      /\ account'[p.user].superuser = p.admins
      /\ UNCHANGED mapping
    BY UserSaved
<1>2. synced' = [synced EXCEPT ![p.user] =
                    IF p.sure THEN [sure |-> TRUE, claims |-> p.claims, kept |-> ByHand(p.current)]
                    ELSE NotSynced]
    BY DEF SaveUser
<1>3. p.user \in SsoUser /\ DOMAIN synced = SsoUser
    BY <1>1 DEF AccessInv, Placed, Typed
<1>4. /\ \A q \in Request : Undisturbed(q)'
      /\ \A u, c : Agree(u, c) => AgreeAfter(u, c)
    BY <1>1, OthersSettle
<1>5. ASSUME NEW u \in SsoUser, u # p.user PROVE Settled(u)'
    <2>1. synced'[u] = synced[u]
        BY <1>2, <1>3, <1>5
    <2>2. Settled(u) /\ (synced[u].sure => u \in DOMAIN account /\ Agree(u, synced[u].claims))
        BY DEF SettleInv, Settled
    <2>3. Gentle(u, synced[u].claims)
        BY <1>1, SameIsGentle
    <2> QED BY <1>1, <1>4, <1>5, <2>1, <2>2, <2>3, SettledStays
<1>6. ASSUME NEW u \in SsoUser, u = p.user PROVE Settled(u)'
    <2>1. CASE p.sure
        <3>1. synced'[u].claims = p.claims /\ synced'[u].kept = ByHand(p.current)
            BY <1>2, <1>3, <1>6, <2>1
        <3>2. Together(r) /\ Settling(p)
            BY <2>1 DEF SettleInv, Undisturbed
        <3>3. /\ p.wanted = Wanted(p.claims) /\ ByHand(account[u].groups) = ByHand(p.current)
              /\ p.wanted \subseteq account[u].groups
              /\ account[u].groups \subseteq ByHand(p.current) \cup p.wanted
              /\ p.admins <=> "Admins" \in account[u].groups
            BY <1>1, <1>6, <3>2 DEF Settling
        <3>4. account[u].groups = ByHand(p.current) \cup Wanted(p.claims)
            BY <3>3, ByHandIs
        <3>5. AgreeAfter(u, p.claims)
            BY <1>4, <1>6, <3>2 DEF Together
        <3>6. /\ u \in DOMAIN account'
              /\ account'[u].groups = account[u].groups /\ account'[u].superuser = p.admins
            BY <1>1, <1>6
        <3> HIDE DEF p
        <3>7. Agree(u, synced[u].claims)'
            BY <3>1, <3>5 DEF Agree, SignIns, AgreeAfter
        <3>8. Wanted(synced[u].claims)' = Wanted(p.claims)
            BY <1>1, <3>1 DEF Wanted, Range
        <3>9. ByHand(synced[u].kept)' = synced'[u].kept
            BY <1>1, <3>1 DEF ByHand, Range
        <3> QED BY <3>1, <3>3, <3>4, <3>6, <3>7, <3>8, <3>9 DEF Settled
    <2>2. CASE ~p.sure
        <3>1. synced'[u].sure = FALSE
            BY <1>2, <1>3, <1>6, <2>2 DEF NotSynced
        <3> QED BY <3>1 DEF Settled
    <2> QED BY <2>1, <2>2
<1> QED BY <1>4, <1>5, <1>6 DEF SettleInv

LEMMA SettleStart ==
    ASSUME AccessInv, SettleInv, NEW r \in Request, NEW u \in SsoUser, StartSignIn(r, u)
    PROVE  SettleInv'
<1> DEFINE c == claims[u]
           agree == Agree(u, c)
<1>1. /\ proc[r].pc = "idle"
      /\ proc'[r].pc = IF u \in DOMAIN account THEN "ensure" ELSE "create"
      /\ proc'[r].user = u /\ proc'[r].claims = c /\ proc'[r].lost = {}
      /\ proc'[r].sure <=> agree
      /\ \A q \in Request \ {r} : proc'[q] = IF agree THEN proc[q] ELSE Unsure(proc[q], {u})
      /\ UNCHANGED <<mapping, account>>
    BY SignInStarted DEF Begins, Process
<1>2. /\ synced' = IF synced[u].sure /\ synced[u].claims = c THEN synced
                   ELSE [synced EXCEPT ![u] = NotSynced]
      /\ DOMAIN synced = SsoUser
    BY DEF StartSignIn, AccessInv, Typed
<1>3. ASSUME NEW q \in Request, q # r
      PROVE  /\ proc'[q].pc = proc[q].pc /\ proc'[q].user = proc[q].user
             /\ agree \/ proc[q].user # u => proc'[q] = proc[q]
             /\ proc'[q].sure => proc'[q] = proc[q] /\ (agree \/ proc[q].user # u)
    <2>1. proc[q] \in Processes
        BY DEF Process, AccessInv, Typed
    <2>2. CASE agree
        BY <1>1, <1>3, <2>2
    <2>3. CASE ~agree
        BY <1>1, <1>3, <2>1, <2>3, UnsureIs
    <2> QED BY <2>2, <2>3
<1>4. Agree(u, c) => AgreeAfter(u, c)
    BY <1>1, <1>3 DEF Agree, SignIns, AgreeAfter
<1>5. ASSUME NEW v, v # u, NEW d, Agree(v, d) PROVE AgreeAfter(v, d)
    BY <1>1, <1>3, <1>5 DEF Agree, SignIns, AgreeAfter
<1>6. ASSUME NEW q \in Request, q # r, proc'[q].sure
      PROVE  proc'[q].pc # "idle" /\ Together(q)' /\ Settling(proc[q])'
    <2>1. proc'[q] = proc[q] /\ proc[q].sure /\ (agree \/ proc[q].user # u)
        BY <1>3, <1>6
    <2>2. proc[q].pc # "idle" /\ Together(q) /\ Settling(proc[q])
        BY <2>1 DEF SettleInv, Undisturbed
    <2>3. AgreeAfter(proc[q].user, proc[q].claims)
        <3>1. CASE proc[q].user # u
            BY <1>5, <2>2, <3>1 DEF Together
        <3>2. CASE proc[q].user = u
            <4>1. proc[q].claims = c
                BY <2>1, <2>2, <3>2 DEF Agree, SignIns
            <4> QED BY <1>4, <2>1, <3>2, <4>1
        <3> QED BY <3>1, <3>2
    <2>4. Together(q)'
        BY <2>1, <2>3 DEF Together, Agree, SignIns, AgreeAfter
    <2>5. Gentle(proc[q].user, proc[q].claims)
        BY <1>1, SameIsGentle
    <2>6. Settling(proc[q])'
        BY <1>1, <2>1, <2>2, <2>5, SettlingStays
    <2> QED BY <2>1, <2>2, <2>4, <2>6
<1>7. ASSUME proc'[r].sure
      PROVE  proc'[r].pc # "idle" /\ Together(r)' /\ Settling(proc[r])'
    <2>1. AgreeAfter(u, c)
        BY <1>1, <1>4, <1>7
    <2>2. Together(r)'
        BY <1>1, <2>1 DEF Together, Agree, SignIns, AgreeAfter
    <2>3. Settling(proc[r])'
        BY <1>1 DEF Settling
    <2> QED BY <1>1, <2>2, <2>3
<1>8. ASSUME NEW v \in SsoUser PROVE Settled(v)'
    <2>1. Settled(v) /\ (synced[v].sure => v \in DOMAIN account /\ Agree(v, synced[v].claims))
        BY DEF SettleInv, Settled
    <2>2. Gentle(v, synced[v].claims)
        BY <1>1, SameIsGentle
    <2>3. CASE v = u /\ ~(synced[u].sure /\ synced[u].claims = c)
        <3>1. synced'[v].sure = FALSE
            BY <1>2, <2>3 DEF NotSynced
        <3> QED BY <3>1 DEF Settled
    <2>4. CASE v = u /\ synced[u].sure /\ synced[u].claims = c
        <3>1. synced'[v] = synced[v] /\ AgreeAfter(v, synced[v].claims)
            BY <1>2, <1>4, <2>1, <2>4
        <3> QED BY <1>1, <2>1, <2>2, <3>1, SettledStays
    <2>5. CASE v # u
        <3>1. synced'[v] = synced[v] /\ (synced[v].sure => AgreeAfter(v, synced[v].claims))
            BY <1>2, <1>5, <2>1, <2>5
        <3> QED BY <1>1, <2>1, <2>2, <3>1, SettledStays
    <2> QED BY <2>3, <2>4, <2>5
<1> QED BY <1>6, <1>7, <1>8 DEF SettleInv, Undisturbed

LEMMA SettleChange == ASSUME AccessInv, SettleInv, AccessChange PROVE SettleInv'
<1> SUFFICES ASSUME NEW users, NEW rows \in SUBSET (User \cup Group),
                    Rearranged(users, rows)
             PROVE  SettleInv'
    BY EveryChange
<1>1. Change(users, rows)
    BY DEF Rearranged
<1>2. ASSUME NEW p \in Process
      PROVE  /\ proc'[p].pc = proc[p].pc /\ proc'[p].role = proc[p].role
             /\ proc'[p].user = proc[p].user /\ proc'[p].lost = proc[p].lost \cup rows
             /\ proc'[p].wanted = proc[p].wanted /\ proc'[p].claims = proc[p].claims
             /\ proc[p].user \notin users => proc'[p].sure = proc[p].sure
             /\ proc'[p].sure =>
                   /\ proc[p].sure /\ proc[p].user \notin users
                   /\ proc'[p].managed = proc[p].managed
                   /\ proc'[p].current = proc[p].current
                   /\ proc'[p].admins = proc[p].admins
    BY ONLY <1>1, Disturbed, AccessInv, Zenon
<1>3. synced' = [u \in SsoUser |-> IF u \in users THEN NotSynced ELSE synced[u]]
    BY <1>1 DEF Change
<1>4. /\ SsoUser \subseteq users \/ UNCHANGED mapping
      /\ SsoUser \subseteq users \/ rows \cap Group = {}
      /\ rows \cap (SsoUser \ users) = {}
      /\ \A u \in (SsoUser \ users) \cap DOMAIN account :
            u \in DOMAIN account' /\ account'[u] = account[u]
    BY DEF Rearranged
<1>5. Request \subseteq Process
    BY DEF Process
<1>6. ASSUME NEW u, u \notin users, NEW c, Agree(u, c) PROVE AgreeAfter(u, c)
    BY <1>2, <1>5, <1>6 DEF Agree, SignIns, AgreeAfter
<1>7. ASSUME NEW q \in Request PROVE Undisturbed(q)'
    <2> SUFFICES ASSUME proc'[q].sure
                 PROVE  proc'[q].pc # "idle" /\ Together(q)' /\ Settling(proc[q])'
        BY DEF Undisturbed
    <2>1. /\ proc'[q].pc = proc[q].pc /\ proc'[q].user = proc[q].user
          /\ proc'[q].lost = proc[q].lost \cup rows /\ proc'[q].wanted = proc[q].wanted
          /\ proc[q].sure /\ proc[q].user \notin users
          /\ proc'[q].claims = proc[q].claims /\ proc'[q].managed = proc[q].managed
          /\ proc'[q].current = proc[q].current /\ proc'[q].admins = proc[q].admins
        BY <1>2, <1>5
    <2>2. proc[q].pc # "idle" /\ Together(q) /\ Settling(proc[q])
        BY <2>1 DEF SettleInv, Undisturbed
    <2>3. AgreeAfter(proc[q].user, proc[q].claims)
        BY <1>6, <2>1, <2>2 DEF Together
    <2>4. Together(q)'
        BY <2>1, <2>3 DEF Together, Agree, SignIns, AgreeAfter
    <2>5. proc[q].user \in SsoUser \ users
        BY <2>1, <2>2 DEF AccessInv, Placed
    <2>6. UNCHANGED mapping /\ rows \cap Group = {} /\ proc[q].user \notin rows
        BY <1>4, <2>5
    <2>7. /\ \A c : Wanted(c)' = Wanted(c)
          /\ Managed' = Managed /\ \A groups : ByHand(groups)' = ByHand(groups)
        BY <2>6, SameMappings
    <2>8. proc[q].user \in DOMAIN account =>
              proc[q].user \in DOMAIN account' /\ account'[proc[q].user] = account[proc[q].user]
        BY <1>4, <2>5
    <2>9. PICK p : p = proc'[q]
        OBVIOUS
    <2>10. Settling(p)'
        <3>1. p.lost \cap Group = proc[q].lost \cap Group
            BY <2>1, <2>6, <2>9
        <3>2. p.user \notin p.lost <=> proc[q].user \notin proc[q].lost
            BY <2>1, <2>6, <2>9
        <3> QED BY <2>1, <2>2, <2>7, <2>8, <2>9, <3>1, <3>2 DEF Settling
    <2>11. Settling(proc[q])'
        BY <2>9, <2>10 DEF Settling
    <2> QED BY <2>1, <2>2, <2>4, <2>11
<1>8. ASSUME NEW u \in SsoUser PROVE Settled(u)'
    <2>1. CASE u \in users
        <3>1. synced'[u].sure = FALSE
            BY <1>3, <2>1 DEF NotSynced
        <3> QED BY <3>1 DEF Settled
    <2>2. CASE u \notin users
        <3>1. synced'[u] = synced[u] /\ UNCHANGED mapping
            BY <1>3, <1>4, <2>2
        <3>2. Settled(u) /\ (synced[u].sure => u \in DOMAIN account /\ Agree(u, synced[u].claims))
            BY DEF SettleInv, Settled
        <3>3. synced[u].sure => AgreeAfter(u, synced[u].claims)
            BY <1>6, <2>2, <3>2
        <3>4. u \in DOMAIN account => u \in DOMAIN account' /\ account'[u] = account[u]
            BY <1>4, <2>2
        <3>5. Gentle(u, synced[u].claims)
            BY <3>4, SameIsGentle
        <3> QED BY <3>1, <3>2, <3>3, <3>4, <3>5, SettledStays
    <2> QED BY <2>1, <2>2
<1> QED BY <1>7, <1>8 DEF SettleInv

LEMMA SettleKill == ASSUME AccessInv, SettleInv, Kill PROVE SettleInv'
<1>1. proc' = [p \in Process |-> Idle] /\ UNCHANGED <<mapping, account, synced>>
    BY DEF Kill, database
<1>2. \A r \in Request : proc'[r] = Idle
    BY <1>1 DEF Process
<1>3. ASSUME NEW r \in Request PROVE Undisturbed(r)'
    BY <1>2, IdleIs DEF Undisturbed
<1>4. ASSUME NEW u \in SsoUser PROVE Settled(u)'
    <2>1. AgreeAfter(u, synced[u].claims)
        BY <1>2, IdleIs DEF AgreeAfter
    <2>2. Settled(u) /\ Gentle(u, synced[u].claims)
        BY <1>1, SameIsGentle DEF SettleInv
    <2> QED BY <1>1, <2>1, <2>2, SettledStays
<1> QED BY <1>3, <1>4 DEF SettleInv

LEMMA SettleStep == ASSUME AccessInv, SettleInv, [AccessNext]_accessVars PROVE SettleInv'
<1>1. CASE UNCHANGED accessVars
    <2>1. UNCHANGED <<mapping, account, proc, synced>>
        BY <1>1 DEF accessVars, database
    <2> QED BY <2>1, SettleElsewhere
<1>2. ASSUME NEW p \in Process, EnsureRole(p) \/ FillRole(p) PROVE SettleInv'
    BY <1>2, SettleRoles
<1>3. CASE BootMoves \/ \E p \in Process : SavePassword(p)
    BY <1>3, SettleBoot
<1>4. ASSUME NEW p \in Process, Fails(p) PROVE SettleInv'
    BY <1>4, FailsIs, SettleRaise
<1>5. ASSUME NEW r \in Request, SignInMoves(r) PROVE SettleInv'
    BY <1>5, SettleGroups, SettleSave DEF SignInMoves
<1>6. ASSUME NEW r \in Request, NEW u \in SsoUser, StartSignIn(r, u) PROVE SettleInv'
    BY <1>6, SettleStart
<1>7. CASE AccessChange
    BY <1>7, SettleChange
<1>8. CASE Kill
    BY <1>8, SettleKill
<1> QED BY <1>1, <1>2, <1>3, <1>4, <1>5, <1>6, <1>7, <1>8, EveryStep

\* Sign-ins of a user, however many overlap, that nothing came between but
\* others with the same claims leave him in exactly the groups that the
\* claims are mapped to, next to those assigned by hand, and a superuser
\* exactly when Admins is one of them (sync_user(); statement by statement,
\* beside any number of sign-ins of others, boots, commands, edits, kills).
THEOREM SignInsAlwaysSettle == AccessSpec => []SignInSettles
<1>1. AccessInit => SettleInv
    <2> SUFFICES ASSUME AccessInit PROVE SettleInv
        OBVIOUS
    <2>1. proc = [p \in Process |-> Idle] /\ synced = [u \in SsoUser |-> NotSynced]
        BY DEF AccessInit
    <2>2. \A r \in Request : Undisturbed(r)
        BY <2>1, IdleIs DEF Undisturbed, Process
    <2>3. \A u \in SsoUser : Settled(u)
        BY <2>1 DEF Settled, NotSynced
    <2> QED BY <2>2, <2>3 DEF SettleInv
<1>2. AccessInv /\ SettleInv /\ [AccessNext]_accessVars => (AccessInv /\ SettleInv)'
    BY InvStep, SettleStep
<1>3. SettleInv => SignInSettles
    BY DEF SettleInv, Settled, SignInSettles
<1> QED BY <1>1, <1>2, <1>3, InvInitially, PTL DEF AccessSpec
=============================================================================

---------------------------- MODULE AccessControl ----------------------------
(***************************************************************************)
(* Who may do what in the admin: the three roles, which every migrate and  *)
(* every sign-in creates when they are missing, the admin account that the *)
(* boot creates when there is no superuser, and the groups of the users    *)
(* that sign in through the identity provider, which each sign-in brings   *)
(* in line with the claims.                                                *)
(*                                                                         *)
(* Nothing here runs in a transaction, so every statement is a step of its *)
(* own (the reads of sync_user() are one): other sign-ins, of the same     *)
(* user too, the management commands and administrators come in between,   *)
(* and the container may be killed.                                        *)
(***************************************************************************)
EXTENDS Naturals, Sequences, FiniteSets, Functions

CONSTANTS
    Extra,      \* groups other than the three roles
    SsoUser,    \* users of the identity provider
    SsoGroup,   \* its groups
    Request,    \* sign-ins at a time (bound)
    MaxChanges, \* edits in the admin, changes at the provider (bound)
    MaxKills    \* times the container is killed (bound)

Roles == <<"Admins", "Editor", "Reader">>
Group == Range(Roles) \cup Extra
User == SsoUser \cup {"admin"}
\* The boot, a management command that is run by hand, and sign-ins.
Process == Request \cup {"boot", "command"}

\* Users and groups are rows of different tables.  An SSO user named admin
\* gets another name as long as there is a local one, see README.
ASSUME AccessAssumption ==
    /\ {"boot", "command"} \cap Request = {} /\ "admin" \notin SsoUser
    /\ User \cap Group = {}
    /\ MaxChanges \in Nat /\ MaxKills \in Nat

VARIABLES
    \* the database
    perms,      \* group -> "none", "default" or "edited", for those that exist
    mapping,    \* SSO group -> group (SSOGroupMapping)
    account,    \* user -> account, for those that exist
    \* processes and surroundings
    web,        \* "down", "booting" or "up"
    proc,       \* the processes
    claims,     \* user -> groups at the provider
    changes, kills,
    \* history
    halfMade,   \* what its creator could not complete: roles, "admin"
    synced      \* user -> what his last sign-ins, undisturbed since, went by

database == <<perms, mapping, account>>
outside  == <<claims, changes, kills>>
accessVars == <<database, web, proc, outside, halfMade, synced>>

Account(superuser, active, password, groups) ==
    [superuser |-> superuser, active |-> active, password |-> password, groups |-> groups]

\* What a process holds; "lost" are the rows deleted since it started, "sure"
\* says that nothing else has touched what it reads or writes, but sign-ins
\* of the same user with the same claims.
Started(user, claimed, sure) ==
    [pc |-> "ensure", role |-> 1, user |-> user, claims |-> claimed, lost |-> {},
     wanted |-> {}, managed |-> {}, current |-> {}, admins |-> FALSE, sure |-> sure]
Idle == [Started("admin", {}, FALSE) EXCEPT !.pc = "idle"]

NotSynced == [sure |-> FALSE, claims |-> {}, kept |-> {}]

AccessInit ==
    /\ perms = <<>> /\ mapping = <<>> /\ account = <<>>
    /\ web = "down"
    /\ proc = [p \in Process |-> Idle]
    /\ claims \in [SsoUser -> SUBSET SsoGroup]
    /\ changes = 0 /\ kills = 0
    /\ halfMade = {}
    /\ synced = [u \in SsoUser |-> NotSynced]

\* A statement raises and nothing handles it.
Raise(p) ==
    /\ proc' = [proc EXCEPT ![p] = Idle]
    /\ UNCHANGED <<database, web, outside, halfMade, synced>>

-----------------------------------------------------------------------------
(* ensure_default_groups(), by the boot (post_migrate) and by sign-ins. *)

\* Faulty variant, for mutation: a group is never taken for a new one.
NeverNew(role) == FALSE

\* get_or_create() had to create it.
IsNewRole(role) == role \notin DOMAIN perms

\* get_or_create() of the next role; --reset fills those that exist, too.
EnsureRole(p) ==
    LET role == Roles[proc[p].role] IN
    /\ proc[p].pc = "ensure"
    /\ proc[p].role \in DOMAIN Roles
    /\ perms' = [g \in DOMAIN perms \cup {role} |->
                    IF g \in DOMAIN perms THEN perms[g] ELSE "none"]
    /\ proc' = [proc EXCEPT ![p] =
                    IF IsNewRole(role) \/ p = "command"
                    THEN [@ EXCEPT !.pc = "fill", !.lost = proc[p].lost \ {role}]
                    ELSE [@ EXCEPT !.role = proc[p].role + 1]]
    /\ UNCHANGED <<mapping, account, web, outside, halfMade, synced>>

RolesEnsured(p) == proc[p].pc = "ensure" /\ proc[p].role \notin DOMAIN Roles

\* group.permissions.set()
FillRole(p) ==
    LET role == Roles[proc[p].role] IN
    /\ proc[p].pc = "fill"
    /\ role \notin proc[p].lost
    /\ perms' = [perms EXCEPT ![role] = "default"]
    /\ proc' = [proc EXCEPT ![p].pc = "ensure", ![p].role = @ + 1]
    /\ halfMade' = halfMade \ {role}
    /\ UNCHANGED <<mapping, account, web, outside, synced>>

FillFails(p) ==
    /\ proc[p].pc = "fill"
    /\ Roles[proc[p].role] \in proc[p].lost
    /\ Raise(p)

-----------------------------------------------------------------------------
(* The boot: migrate, then bootstrap_admin, then gunicorn. *)

AccessBoot ==
    /\ web = "down"
    /\ web' = "booting"
    /\ proc' = [proc EXCEPT !["boot"] = Started("admin", {}, FALSE)]
    /\ UNCHANGED <<database, outside, halfMade, synced>>

Migrated == web = "booting" /\ RolesEnsured("boot")

Superusers == {u \in DOMAIN account : account[u].superuser}

WithAccount(u, row) ==
    account' = [v \in DOMAIN account \cup {u} |-> IF v = u THEN row ELSE account[v]]

Serve ==
    /\ web' = "up"
    /\ proc' = [proc EXCEPT !["boot"] = Idle]

\* "superuser exists - skipping"
BootstrapSkipped ==
    /\ Migrated
    /\ Superusers # {}
    /\ Serve
    /\ UNCHANGED <<database, outside, halfMade, synced>>

\* update_or_create(); save() of the password is still to come.
CreateAdmin(p) ==
    /\ WithAccount("admin",
           IF "admin" \in DOMAIN account
           THEN [account["admin"] EXCEPT !.superuser = TRUE, !.active = TRUE]
           ELSE Account(TRUE, TRUE, FALSE, {}))
    /\ proc' = [proc EXCEPT ![p] = [Started("admin", {}, FALSE) EXCEPT !.pc = "password"]]

BootstrapAdmin ==
    /\ Migrated
    /\ Superusers = {}
    /\ CreateAdmin("boot")
    /\ UNCHANGED <<perms, mapping, web, outside, halfMade, synced>>

\* set_password(), save(); the boot goes on to gunicorn.
SavePassword(p) ==
    /\ proc[p].pc = "password"
    /\ "admin" \notin proc[p].lost
    /\ WithAccount("admin", [account["admin"] EXCEPT !.password = TRUE])
    /\ web' = "up"
    /\ proc' = [proc EXCEPT ![p] = Idle]
    /\ halfMade' = halfMade \ {"admin"}
    /\ UNCHANGED <<perms, mapping, outside, synced>>

PasswordFails(p) ==
    /\ proc[p].pc = "password"
    /\ "admin" \in proc[p].lost
    /\ Raise(p)

-----------------------------------------------------------------------------
(* Management commands by hand. *)

Command ==
    /\ web = "up"
    /\ proc["command"].pc = "idle"
    /\ changes < MaxChanges
    /\ changes' = changes + 1

\* sync_roles --reset
ResetRoles ==
    /\ Command
    /\ proc' = [proc EXCEPT !["command"] = Started("admin", {}, FALSE)]
    /\ UNCHANGED <<database, web, claims, kills, halfMade, synced>>

RolesReset == RolesEnsured("command") /\ Raise("command")

\* bootstrap_admin --reset
ResetAdmin ==
    /\ Command
    /\ CreateAdmin("command")
    /\ UNCHANGED <<perms, mapping, web, claims, kills, halfMade, synced>>

-----------------------------------------------------------------------------
(* SocialAccountAdapter.pre_social_login() and sync_user(). *)

SignIns(u) == {r \in Request : proc[r].pc # "idle" /\ proc[r].user = u}

\* Nobody can be sure any more of these users' sign-ins.
Unsure(p, users) == IF p.user \in users THEN [p EXCEPT !.sure = FALSE] ELSE p

\* The sign-ins of the user under way go by these claims, undisturbed.
Agree(u, claimed) == \A r \in SignIns(u) : proc[r].sure /\ proc[r].claims = claimed

\* The lookup of the account; a disabled one is sent back.
StartSignIn(r, u) ==
    LET agree == Agree(u, claims[u]) IN
    /\ web = "up"
    /\ proc[r].pc = "idle"
    /\ u \in DOMAIN account => account[u].active
    /\ proc' = [p \in Process |->
                    IF p = r THEN [Started(u, claims[u], agree) EXCEPT
                                      !.pc = IF u \in DOMAIN account THEN "ensure" ELSE "create"]
                    ELSE IF agree THEN proc[p] ELSE Unsure(proc[p], {u})]
    /\ synced' = IF synced[u].sure /\ synced[u].claims = claims[u] THEN synced
                 ELSE [synced EXCEPT ![u] = NotSynced]
    /\ UNCHANGED <<database, web, outside, halfMade>>

\* generate_unique_username(), sociallogin.save()
CreateAccount(r) ==
    LET u == proc[r].user IN
    /\ proc[r].pc = "create"
    /\ u \notin DOMAIN account
    /\ WithAccount(u, Account(FALSE, TRUE, FALSE, {}))
    /\ proc' = [proc EXCEPT ![r].pc = "ensure", ![r].lost = @ \ {u}]
    /\ UNCHANGED <<perms, mapping, web, outside, halfMade, synced>>

\* IntegrityError: another sign-in was faster.
AccountTaken(r) ==
    /\ proc[r].pc = "create"
    /\ proc[r].user \in DOMAIN account
    /\ Raise(r)

\* Faulty variant, for mutation: Reader is not managed.
OnlyMapped == Range(mapping)

\* The groups that sign-ins manage; the others were assigned by hand.
Managed == Range(mapping) \cup {"Reader"}

\* The groups that the mappings grant for these claims, Reader when none.
Wanted(claimed) ==
    LET granted == {mapping[c] : c \in claimed \cap DOMAIN mapping}
    IN IF granted = {} THEN {"Reader"} ELSE granted

\* Reader, the mappings and the user's groups.
ReadGroups(r) ==
    LET p == proc[r] IN
    /\ RolesEnsured(r)
    /\ "Reader" \in DOMAIN perms
    /\ p.user \notin p.lost
    /\ proc' = [proc EXCEPT ![r] =
                    [@ EXCEPT !.pc = "add", !.lost = {}, !.managed = Managed,
                              !.wanted = Wanted(p.claims),
                              !.current = account[p.user].groups]]
    /\ UNCHANGED <<database, web, outside, halfMade, synced>>

ReaderMissing(r) ==
    /\ RolesEnsured(r)
    /\ "Reader" \notin DOMAIN perms \/ proc[r].user \in proc[r].lost
    /\ Raise(r)

New(p) == p.wanted \ p.current

\* Faulty variant, for mutation: groups that are gone are linked.
LinkAnyway(p) == p.user \notin p.lost

\* Rows that are gone cannot be linked.
Linkable(p) == New(p) = {} \/ p.lost \cap (New(p) \cup {p.user}) = {}

\* IntegrityError
AddFails(r) ==
    /\ proc[r].pc = "add"
    /\ ~Linkable(proc[r])
    /\ Raise(r)

\* Statement by statement, "user" is the row the sign-in has loaded.
SetAccount(r, row) ==
    IF proc[r].user \in proc[r].lost THEN UNCHANGED account ELSE WithAccount(proc[r].user, row)

AddGroups(r) ==
    LET p == proc[r] IN
    /\ proc[r].pc = "add"
    /\ Linkable(p)
    /\ SetAccount(r, [account[p.user] EXCEPT !.groups = @ \cup New(p)])
    /\ proc' = [proc EXCEPT ![r].pc = "remove"]
    /\ UNCHANGED <<perms, mapping, web, outside, halfMade, synced>>

\* By their keys: a group that is deleted and made again is another one.
Revoked(p) == ((p.managed \ p.wanted) \cap p.current) \ p.lost

RemoveGroups(r) ==
    LET p == proc[r] IN
    /\ proc[r].pc = "remove"
    /\ SetAccount(r, [account[p.user] EXCEPT !.groups = @ \ Revoked(p)])
    /\ proc' = [proc EXCEPT ![r].pc = "admins"]
    /\ UNCHANGED <<perms, mapping, web, outside, halfMade, synced>>

\* user.groups.filter(name=ADMINS).exists()
ReadAdmins(r) ==
    LET p == proc[r] IN
    /\ proc[r].pc = "admins"
    /\ proc' = [proc EXCEPT ![r] =
                    [@ EXCEPT !.pc = "save",
                              !.admins = /\ p.user \notin p.lost
                                         /\ "Admins" \in account[p.user].groups]]
    /\ UNCHANGED <<database, web, outside, halfMade, synced>>

ByHand(groups) == groups \ (Range(mapping) \cup {"Reader"})

SaveUser(r) ==
    LET p == proc[r] IN
    /\ proc[r].pc = "save"
    /\ p.user \notin p.lost
    /\ WithAccount(p.user, [account[p.user] EXCEPT !.superuser = p.admins])
    /\ synced' = [synced EXCEPT ![p.user] =
                    IF p.sure THEN [sure |-> TRUE, claims |-> p.claims, kept |-> ByHand(p.current)]
                    ELSE NotSynced]
    /\ proc' = [proc EXCEPT ![r] = Idle]
    /\ UNCHANGED <<perms, mapping, web, outside, halfMade>>

SaveFails(r) ==
    /\ proc[r].pc = "save"
    /\ proc[r].user \in proc[r].lost
    /\ Raise(r)

-----------------------------------------------------------------------------
(* The surroundings. *)

\* An edit that concerns these users' groups and deletes these rows.
Change(users, rows) ==
    /\ web = "up"
    /\ changes < MaxChanges
    /\ changes' = changes + 1
    /\ proc' = [p \in Process |-> [Unsure(proc[p], users) EXCEPT !.lost = @ \cup rows]]
    /\ synced' = [u \in SsoUser |-> IF u \in users THEN NotSynced ELSE synced[u]]
    /\ halfMade' = halfMade \ rows
    /\ UNCHANGED <<web, kills>>

MapGroup(c, g) ==
    /\ g \in DOMAIN perms
    /\ mapping' = [d \in DOMAIN mapping \cup {c} |-> IF d = c THEN g ELSE mapping[d]]
    /\ Change(SsoUser, {})
    /\ UNCHANGED <<perms, account, claims>>

UnmapGroup(c) ==
    /\ c \in DOMAIN mapping
    /\ mapping' = Restrict(mapping, DOMAIN mapping \ {c})
    /\ Change(SsoUser, {})
    /\ UNCHANGED <<perms, account, claims>>

SavePerms(g) ==
    /\ perms' = [h \in DOMAIN perms \cup {g} |-> IF h = g THEN "edited" ELSE perms[h]]
    /\ Change({}, {})
    /\ UNCHANGED <<mapping, account, claims>>

\* Memberships and mappings go with it.
DeleteGroup(g) ==
    /\ g \in DOMAIN perms
    /\ perms' = Restrict(perms, DOMAIN perms \ {g})
    /\ mapping' = Restrict(mapping, {c \in DOMAIN mapping : mapping[c] # g})
    /\ account' = [u \in DOMAIN account |-> [account[u] EXCEPT !.groups = @ \ {g}]]
    /\ Change(SsoUser, {g})
    /\ UNCHANGED claims

\* One box of the form is ticked or unticked.
EditUser(u) ==
    /\ u \in DOMAIN account
    /\ \/ WithAccount(u, [account[u] EXCEPT !.superuser = ~@])
       \/ WithAccount(u, [account[u] EXCEPT !.active = ~@])
       \/ \E g \in DOMAIN perms :
             \/ WithAccount(u, [account[u] EXCEPT !.groups = @ \cup {g}])
             \/ WithAccount(u, [account[u] EXCEPT !.groups = @ \ {g}])
    /\ Change({u}, {})
    /\ UNCHANGED <<perms, mapping, claims>>

DeleteUser(u) ==
    /\ u \in DOMAIN account
    /\ account' = Restrict(account, DOMAIN account \ {u})
    /\ Change({u}, {u})
    /\ UNCHANGED <<perms, mapping, claims>>

\* At the provider.
ChangeClaims(u) ==
    /\ claims' \in {[claims EXCEPT ![u] = c] : c \in SUBSET SsoGroup}
    /\ Change({}, {})
    /\ UNCHANGED database

\* What a process was about to complete when it ended.
Begun(p) ==
    CASE p.pc = "fill" -> {Roles[p.role]} \ p.lost
      [] p.pc = "password" -> {"admin"} \ p.lost
      [] OTHER -> {}

\* Stopped or killed at any moment.
Kill ==
    /\ web # "down"
    /\ kills < MaxKills
    /\ kills' = kills + 1
    /\ web' = "down"
    /\ halfMade' = halfMade \cup UNION {Begun(proc[p]) : p \in Process}
    /\ proc' = [p \in Process |-> Idle]
    /\ UNCHANGED <<database, claims, changes, synced>>

AccessStep ==
    \/ \E p \in Process :
          \/ EnsureRole(p) \/ FillRole(p) \/ FillFails(p)
          \/ SavePassword(p) \/ PasswordFails(p)
    \/ AccessBoot \/ BootstrapSkipped \/ BootstrapAdmin
    \/ ResetRoles \/ RolesReset \/ ResetAdmin
    \/ \E r \in Request :
          \/ CreateAccount(r) \/ AccountTaken(r)
          \/ ReadGroups(r) \/ ReaderMissing(r) \/ AddGroups(r) \/ AddFails(r)
          \/ RemoveGroups(r) \/ ReadAdmins(r) \/ SaveUser(r) \/ SaveFails(r)
          \/ \E u \in SsoUser : StartSignIn(r, u)

AccessChange ==
    \/ \E c \in SsoGroup : UnmapGroup(c) \/ \E g \in Group : MapGroup(c, g)
    \/ \E g \in Group : SavePerms(g) \/ DeleteGroup(g)
    \/ \E u \in User : EditUser(u) \/ DeleteUser(u)
    \/ \E u \in SsoUser : ChangeClaims(u)

AccessNext == AccessStep \/ AccessChange \/ Kill

AccessSpec == AccessInit /\ [][AccessNext]_accessVars

-----------------------------------------------------------------------------
(* Properties. *)

\* What exists is made of what exists: the keys of the three tables resolve,
\* and only the boot runs while the container boots.
AccessTypeOK ==
    /\ DOMAIN perms \subseteq Group
    /\ \A g \in DOMAIN perms : perms[g] \in {"none", "default", "edited"}
    /\ DOMAIN mapping \subseteq SsoGroup /\ Range(mapping) \subseteq DOMAIN perms
    /\ DOMAIN account \subseteq User
    /\ \A u \in DOMAIN account : account[u].groups \subseteq DOMAIN perms
    /\ web # "up" => \A p \in Process \ {"boot"} : proc[p] = Idle

\* Sign-ins of a user, however many overlap, that go by the same claims leave
\* him in exactly the groups that these are mapped to, or Reader, next to
\* those assigned by hand, and a superuser exactly when Admins is one of
\* them.  This holds from the end of the first of them and stays so, while
\* others run on or are cut short, until his groups or the mappings are
\* edited or he signs in with other claims.
SignInSettles ==
    \A u \in SsoUser : synced[u].sure =>
        /\ account[u].groups = synced[u].kept \cup Wanted(synced[u].claims)
        /\ account[u].superuser <=> "Admins" \in account[u].groups

\* Roles and the admin account are created by two statements each.  Between
\* sign-ins and boots that race for it, an existing role has no permissions,
\* or the admin no password, only while its creator is at work, or because
\* it ended in between; later boots and sign-ins do not complete it.
MadeInFull ==
    LET begun == halfMade \cup UNION {Begun(proc[p]) : p \in Process} IN
    /\ {role \in Range(Roles) \cap DOMAIN perms : perms[role] = "none"} \subseteq begun
    /\ ("admin" \in DOMAIN account /\ ~account["admin"].password) => "admin" \in begun
=============================================================================

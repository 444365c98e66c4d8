------------------------------ MODULE EnvSync ------------------------------
(***************************************************************************)
(* The boot of the web container as far as it writes tenants and directory *)
(* servers: docker/entrypoint.sh runs sync_tenants and then                *)
(* sync_directory_servers, each one transaction, before gunicorn starts,   *)
(* and ends with the first command that fails; compose restarts it.  Each  *)
(* command upserts what its variables describe and, with --prune, deletes  *)
(* the env-managed rows that they no longer describe.                      *)
(*                                                                         *)
(* Between two boots the operator edits the environment and administrators *)
(* edit rows of either kind.  The milter, a container of its own, reads    *)
(* the committed rows at any time.                                         *)
(***************************************************************************)
EXTENDS Naturals, Sequences, FiniteSets, Functions

CONSTANTS
    Slug,       \* tenants, by slug
    Domain,     \* sender domains
    ServerName, \* directory servers, by name
    Url,        \* lists of URLs
    Env,        \* contents of .env, see IsEnv
    NoTenant,   \* the empty foreign key
    MaxEdits,   \* edits in the admin (bound)
    MaxCrashes  \* times the container is killed (bound)

\* One handle of TENANTS and one of LDAP_SERVERS; "valid" stands for the
\* required variables, the flavour and the number being readable.
TenantPayload == [slug : Slug, enabled : BOOLEAN, domains : Seq(Domain)]
ServerPayload ==
    [name : ServerName, tenant : Slug \cup {NoTenant}, urls : Url, valid : BOOLEAN]

IsEnv(e) ==
    /\ e.tenants \in Seq(TenantPayload)
    /\ e.servers \in Seq(ServerPayload)
    /\ e.pruneTenants \in BOOLEAN
    /\ e.pruneServers \in BOOLEAN

ASSUME EnvAssumption ==
    /\ NoTenant \notin Slug
    /\ \A e \in Env : IsEnv(e)
    /\ MaxEdits \in Nat
    /\ MaxCrashes \in Nat

VARIABLES
    env,        \* the environment of the web container
    phase,      \* "down", "tenants", "servers", "up" or "failed"
    at,         \* the handle the running command is at
    todo,       \* domains its tenant still lacks
    db,         \* the committed rows
    work,       \* the rows as the running transaction sees them
    edits,      \* edits made so far
    crashes,    \* crashes so far
    settled     \* history: a boot with this environment came up, no edit since

bootVars == <<phase, at, todo, work>>
vars == <<env, bootVars, db, edits, crashes, settled>>

\* f with k mapped to v.
Put(f, k, v) == [x \in DOMAIN f \cup {k} |-> IF x = k THEN v ELSE f[x]]

TenantRow == [managed : BOOLEAN, enabled : BOOLEAN]
Row(managed, tenant, urls) == [managed |-> managed, tenant |-> tenant, urls |-> urls]

\* Rows: tenants by slug, the tenant of each domain (TenantDomain.domain is
\* unique), and by name the servers, numbered in the order of their keys.
Tables(tenants, owner, servers) ==
    [tenants |-> tenants, owner |-> owner, servers |-> servers]

Empty == Tables(<<>>, <<>>, [n \in ServerName |-> <<>>])

-----------------------------------------------------------------------------
(* What the two commands do to the rows d they see. *)

Slugs(e) == {p.slug : p \in Range(e.tenants)}
Names(e) == {p.name : p \in Range(e.servers)}

\* Faulty variant, for mutation: the domains it had stay.
DomainsStay(owner, slug) == owner

\* tenant.domains.all().delete()
DomainsGone(owner, slug) == Restrict(owner, {x \in DOMAIN owner : owner[x] # slug})

\* sync_tenants._upsert(), the row itself: created or overwritten.
WithTenant(d, p) ==
    Tables(Put(d.tenants, p.slug, [managed |-> TRUE, enabled |-> p.enabled]),
           DomainsGone(d.owner, p.slug), d.servers)

\* TenantDomain.objects.create()
WithDomain(d, slug, x) == Tables(d.tenants, Put(d.owner, x, slug), d.servers)

\* Faulty variant, for mutation: the links to it stay.
LinksStay(d, gone) ==
    Tables(Restrict(d.tenants, DOMAIN d.tenants \ gone),
           Restrict(d.owner, {x \in DOMAIN d.owner : d.owner[x] \notin gone}),
           d.servers)

\* Tenant.delete(): its domains go with it, links to it become empty.
WithoutTenants(d, gone) ==
    Tables(Restrict(d.tenants, DOMAIN d.tenants \ gone),
           Restrict(d.owner, {x \in DOMAIN d.owner : d.owner[x] \notin gone}),
           [n \in ServerName |-> [i \in DOMAIN d.servers[n] |->
                IF d.servers[n][i].tenant \in gone
                THEN [d.servers[n][i] EXCEPT !.tenant = NoTenant]
                ELSE d.servers[n][i]]])

\* Faulty variant, for mutation: a row without the marker is stale as well.
AnyStale(d, e) == DOMAIN d.tenants \ Slugs(e)

StaleTenants(d, e) == {s \in DOMAIN d.tenants \ Slugs(e) : d.tenants[s].managed}

\* Faulty variant, for mutation: disabled tenants are not seen.
DisabledStay(d, e) ==
    IF e.pruneTenants
    THEN WithoutTenants(d, {s \in StaleTenants(d, e) : d.tenants[s].enabled}) ELSE d

\* sync_tenants._prune()
TenantsPruned(d, e) ==
    IF e.pruneTenants THEN WithoutTenants(d, StaleTenants(d, e)) ELSE d

IsFirst(k, rows) == k \in DOMAIN rows /\ \A j \in DOMAIN rows : k <= j

\* The number of a new row.
IsNew(k, rows) ==
    /\ \A j \in DOMAIN rows : j < k
    /\ k = 1 \/ k - 1 \in DOMAIN rows

\* Faulty variant, for mutation: the upsert always creates a row.
AlwaysNew(k, rows) == IsNew(k, rows)

\* The row that is overwritten, the first of its name, or created.
IsTarget(k, rows) == IF DOMAIN rows = {} THEN IsNew(k, rows) ELSE IsFirst(k, rows)

Numbers == 1..(MaxEdits + 1)

\* sync_directory_servers._upsert(), the URLs with it.
WithServer(d, p, k) ==
    Tables(d.tenants, d.owner,
           Put(d.servers, p.name,
               Put(d.servers[p.name], k, Row(TRUE, p.tenant, p.urls))))

\* sync_directory_servers._prune()
ServersPruned(d, e) ==
    IF ~e.pruneServers THEN d
    ELSE Tables(d.tenants, d.owner,
                [n \in ServerName |->
                    IF n \in Names(e) THEN d.servers[n]
                    ELSE Restrict(d.servers[n],
                                  {k \in DOMAIN d.servers[n] : ~d.servers[n][k].managed})])

\* Tenant.match_sender(): the tenant the milter finds for a sender's domain.
MatchSender(d, x) ==
    IF x \in DOMAIN d.owner /\ d.tenants[d.owner[x]].enabled THEN d.owner[x] ELSE NoTenant

-----------------------------------------------------------------------------
SyncInit ==
    /\ env \in Env
    /\ phase = "down"
    /\ at = 1
    /\ todo = <<>>
    /\ db = Empty
    /\ work = Empty
    /\ edits = 0
    /\ crashes = 0
    /\ settled = FALSE

\* The entrypoint goes on with these committed rows: to a command and its
\* transaction, to gunicorn, or it ends.
Enter(p, rows) ==
    /\ phase' = p
    /\ at' = 1
    /\ todo' = <<>>
    /\ db' = rows
    /\ work' = rows
    /\ settled' = (settled \/ p = "up")

AfterTenants == IF env.servers # <<>> THEN "servers" ELSE "up"

\* Without TENANTS, or LDAP_SERVERS, nothing is synced and nothing pruned.
Boot ==
    /\ phase \in {"down", "failed"}
    /\ Enter(IF env.tenants # <<>> THEN "tenants" ELSE AfterTenants, db)
    /\ UNCHANGED <<env, edits, crashes>>

\* The command raises; its transaction is rolled back, the container ends.
Fail ==
    /\ Enter("failed", db)
    /\ UNCHANGED <<env, edits, crashes>>

\* Faulty variant, for mutation: no transaction, every statement is visible.
Autocommitted(rows) == rows

\* transaction.atomic(): nothing is visible before the end.
Isolated(rows) == db

\* A statement of the running transaction.
Write(rows) ==
    /\ work' = rows
    /\ db' = Isolated(rows)
    /\ UNCHANGED <<env, phase, edits, crashes, settled>>

UpsertTenant ==
    /\ phase = "tenants"
    /\ todo = <<>>
    /\ at \in DOMAIN env.tenants
    /\ Write(WithTenant(work, env.tenants[at]))
    /\ todo' = env.tenants[at].domains
    /\ at' = at + 1

CreateDomain ==
    /\ phase = "tenants"
    /\ todo # <<>>
    /\ Head(todo) \notin DOMAIN work.owner
    /\ Write(WithDomain(work, env.tenants[at - 1].slug, Head(todo)))
    /\ todo' = Tail(todo)
    /\ UNCHANGED at

\* IntegrityError
DomainTaken ==
    /\ phase = "tenants"
    /\ todo # <<>>
    /\ Head(todo) \in DOMAIN work.owner
    /\ Fail

CommitTenants ==
    /\ phase = "tenants"
    /\ todo = <<>>
    /\ at \notin DOMAIN env.tenants
    /\ Enter(AfterTenants, TenantsPruned(work, env))
    /\ UNCHANGED <<env, edits, crashes>>

\* All payloads are built before the transaction starts.
PayloadsValid == \A p \in Range(env.servers) : p.valid

PayloadInvalid ==
    /\ phase = "servers"
    /\ ~PayloadsValid
    /\ Fail

UpsertServer ==
    /\ phase = "servers"
    /\ PayloadsValid
    /\ at \in DOMAIN env.servers
    /\ env.servers[at].tenant \in DOMAIN work.tenants \cup {NoTenant}
    /\ \E k \in Numbers :
          /\ IsTarget(k, work.servers[env.servers[at].name])
          /\ Write(WithServer(work, env.servers[at], k))
    /\ at' = at + 1
    /\ UNCHANGED todo

\* CommandError: no such tenant.
TenantUnknown ==
    /\ phase = "servers"
    /\ PayloadsValid
    /\ at \in DOMAIN env.servers
    /\ env.servers[at].tenant \notin DOMAIN work.tenants \cup {NoTenant}
    /\ Fail

CommitServers ==
    /\ phase = "servers"
    /\ PayloadsValid
    /\ at \notin DOMAIN env.servers
    /\ Enter("up", ServersPruned(work, env))
    /\ UNCHANGED <<env, edits, crashes>>

-----------------------------------------------------------------------------
(* The surroundings. *)

Crash ==
    /\ phase \in {"tenants", "servers", "up"}
    /\ crashes < MaxCrashes
    /\ crashes' = crashes + 1
    /\ Enter("down", db)
    /\ UNCHANGED <<env, edits>>

\* The operator edits .env and has the container created again.
Configure ==
    /\ phase \in {"up", "failed"}
    /\ env' \in Env
    /\ phase' = "down"
    /\ at' = 1
    /\ todo' = <<>>
    /\ work' = db
    /\ settled' = (settled /\ env' = env)
    /\ UNCHANGED <<db, edits, crashes>>

\* A form of the admin is saved.
Edit(rows) ==
    /\ phase = "up"
    /\ edits < MaxEdits
    /\ edits' = edits + 1
    /\ db' = rows
    /\ work' = rows
    /\ settled' = FALSE
    /\ UNCHANGED <<env, phase, at, todo, crashes>>

\* Any state of the form that validates; the description, with the marker
\* of an env-managed row, can be edited too.
SaveTenant(s) ==
    \E kept \in BOOLEAN, on \in BOOLEAN, domains \in SUBSET Domain :
        LET managed == s \in DOMAIN db.tenants /\ db.tenants[s].managed /\ kept
            others == DomainsGone(db.owner, s)
        IN /\ domains \cap DOMAIN others = {}
           /\ Edit(Tables(
                Put(db.tenants, s, [managed |-> managed, enabled |-> on]),
                [x \in DOMAIN others \cup domains |-> IF x \in domains THEN s ELSE others[x]],
                db.servers))

DeleteTenant(s) ==
    /\ s \in DOMAIN db.tenants
    /\ Edit(WithoutTenants(db, {s}))

SaveServer(n, k, managed) ==
    \E t \in DOMAIN db.tenants \cup {NoTenant}, urls \in Url :
        Edit(Tables(db.tenants, db.owner,
                    Put(db.servers, n, Put(db.servers[n], k, Row(managed, t, urls)))))

AddServer(n) ==
    \E k \in Numbers : IsNew(k, db.servers[n]) /\ SaveServer(n, k, FALSE)

ChangeServer(n) ==
    \E k \in DOMAIN db.servers[n] : SaveServer(n, k, db.servers[n][k].managed)

DeleteServer(n) ==
    \E k \in DOMAIN db.servers[n] :
        Edit(Tables(db.tenants, db.owner,
                    Put(db.servers, n, Restrict(db.servers[n], DOMAIN db.servers[n] \ {k}))))

SyncStep ==
    \/ Boot
    \/ UpsertTenant \/ CreateDomain \/ DomainTaken \/ CommitTenants
    \/ PayloadInvalid \/ UpsertServer \/ TenantUnknown \/ CommitServers

AdminEdit ==
    \/ \E s \in Slug : SaveTenant(s) \/ DeleteTenant(s)
    \/ \E n \in ServerName : AddServer(n) \/ ChangeServer(n) \/ DeleteServer(n)

SyncNext == SyncStep \/ Crash \/ Configure \/ AdminEdit

SyncSpec == SyncInit /\ [][SyncNext]_vars

-----------------------------------------------------------------------------
(* Properties. *)

\* A handle listed twice: the last one wins.
LastTenant(e, i) ==
    \A j \in DOMAIN e.tenants : e.tenants[j].slug = e.tenants[i].slug => j <= i
LastServer(e, i) ==
    \A j \in DOMAIN e.servers : e.servers[j].name = e.servers[i].name => j <= i

DomainsOf(d, s) == {x \in DOMAIN d.owner : d.owner[x] = s}

TenantMatches(d, p) ==
    /\ p.slug \in DOMAIN d.tenants
    /\ d.tenants[p.slug] = [managed |-> TRUE, enabled |-> p.enabled]
    /\ DomainsOf(d, p.slug) = Range(p.domains)

ServerMatches(d, p) ==
    \E k \in DOMAIN d.servers[p.name] :
        /\ IsFirst(k, d.servers[p.name])
        /\ d.servers[p.name][k] = Row(TRUE, p.tenant, p.urls)

\* Rows are typed and every foreign key resolves, for the reader of the
\* committed rows and for the running transaction.
TablesOK(d) ==
    /\ DOMAIN d.tenants \subseteq Slug
    /\ \A s \in DOMAIN d.tenants : d.tenants[s] \in TenantRow
    /\ DOMAIN d.owner \subseteq Domain
    /\ \A x \in DOMAIN d.owner : d.owner[x] \in DOMAIN d.tenants
    /\ \A n \in ServerName : \A i \in DOMAIN d.servers[n] :
          d.servers[n][i].tenant \in DOMAIN d.tenants \cup {NoTenant}

SyncTypeOK ==
    /\ env \in Env
    /\ phase \in {"down", "tenants", "servers", "up", "failed"}
    /\ at \in Nat \ {0}
    /\ TablesOK(db)
    /\ TablesOK(work)
    /\ edits \in 0..MaxEdits
    /\ crashes \in 0..MaxCrashes

\* "the env stays the source of truth": once a boot has come up, and until
\* somebody edits a row, each handle has its row with exactly its domains or
\* its URLs and its tenant, also while later boots with that environment run
\* or are cut short.
EnvAuthoritative ==
    settled =>
        /\ \A i \in DOMAIN env.tenants :
              (LastTenant(env, i) => TenantMatches(db, env.tenants[i]))
        /\ \A i \in DOMAIN env.servers :
              (LastServer(env, i) => ServerMatches(db, env.servers[i]))

\* With --prune no other env-managed row is left, provided there is a handle.
PruneComplete ==
    settled =>
        /\ (env.tenants # <<>> /\ env.pruneTenants => StaleTenants(db, env) = {})
        /\ (env.servers # <<>> /\ env.pruneServers =>
              \A n \in ServerName \ Names(env) : \A r \in Range(db.servers[n]) : ~r.managed)

\* "idempotent": no step of a later boot with the same environment, and no
\* crash of one, changes a row.
Idempotent == [][settled /\ settled' => db' = db]_vars

\* "Manually-created rows are never touched", as far as the code keeps it: a
\* boot leaves a row without the marker as it is unless a handle has its
\* slug or name, except for its link to a tenant that is pruned.
ManualLeftAlone ==
    [][edits' = edits =>
        /\ \A s \in DOMAIN db.tenants \ Slugs(env) :
              ~db.tenants[s].managed =>
              /\ s \in DOMAIN db'.tenants
              /\ db'.tenants[s] = db.tenants[s]
              /\ DomainsOf(db', s) = DomainsOf(db, s)
        /\ \A n \in ServerName \ Names(env) : \A r \in Range(db.servers[n]) : ~r.managed =>
              \/ r \in Range(db'.servers[n])
              \/ /\ [r EXCEPT !.tenant = NoTenant] \in Range(db'.servers[n])
                 /\ r.tenant \notin DOMAIN db'.tenants
      ]_vars

\* The milter runs on while the web container boots: at no moment of a boot,
\* whether it succeeds, fails or is killed, does it miss the tenant of a
\* domain that has it already and keeps it by the environment, or the URLs
\* of such a server.
KeptStaysServed ==
    [][edits' = edits =>
        /\ \A i \in DOMAIN env.tenants : LastTenant(env, i) /\ env.tenants[i].enabled =>
              \A x \in Range(env.tenants[i].domains) :
                  (MatchSender(db, x) = env.tenants[i].slug
                      => MatchSender(db', x) = env.tenants[i].slug)
        /\ \A i \in DOMAIN env.servers :
              /\ LastServer(env, i)
              /\ ServerMatches(db, env.servers[i])
              /\ env.servers[i].tenant \in DOMAIN db'.tenants \cup {NoTenant}
              => ServerMatches(db', env.servers[i])
      ]_vars

\* The variables contradict neither themselves nor each other.
WellFormed(e) ==
    /\ \A i \in DOMAIN e.tenants : IsInjective(e.tenants[i].domains)
    /\ \A i, j \in DOMAIN e.tenants :
          i # j => Range(e.tenants[i].domains) \cap Range(e.tenants[j].domains) = {}
    /\ \A p \in Range(e.servers) : p.valid /\ p.tenant \in Slugs(e) \cup {NoTenant}

\* No domain of the environment is a domain of a tenant that it does not
\* list: made by hand, kept because nothing is pruned, or about to be pruned.
NoForeignDomain(e, d) ==
    \A p \in Range(e.tenants) : \A x \in Range(p.domains) \cap DOMAIN d.owner :
        d.owner[x] \in Slugs(e)

\* None of such a tenant that stays.
NoLastingForeignDomain(e, d) ==
    \A p \in Range(e.tenants) : \A x \in Range(p.domains) \cap DOMAIN d.owner :
        \/ d.owner[x] \in Slugs(e)
        \/ e.pruneTenants /\ d.owner[x] \in StaleTenants(d, e)

\* Between the tenants it lists, no domain has to move to one listed before
\* the one that has it.
NoMoveForward(e, d) ==
    \A i \in DOMAIN e.tenants : \A x \in Range(e.tenants[i].domains) \cap DOMAIN d.owner :
        d.owner[x] \in Slugs(e) => \E j \in 1..i : e.tenants[j].slug = d.owner[x]

\* The web container ends with an error, and is restarted into the same one
\* for ever, only for one of three causes: the environment contradicts
\* itself; it claims a domain of a tenant that it does not list, even of one
\* that this very boot would prune after its upserts; or a domain moves to a
\* tenant listed before the one that has it.
FailsForCause ==
    phase = "failed" =>
        \/ ~WellFormed(env)
        \/ ~NoForeignDomain(env, db)
        \/ ~NoMoveForward(env, db)

\* "Delete env-managed tenants that no longer appear in TENANTS", "replace
\* domain set so the env stays authoritative": an environment that is
\* well-formed and claims no domain of a tenant that stays unlisted always
\* boots, whatever moves between tenants.
\* It does not: domains are replaced tenant by tenant, and pruning comes after
\* all upserts, so a domain of a tenant that is dropped, or listed later, is
\* still taken when it is created; and the failed boot undoes what would free
\* it.
WellFormedBoots ==
    phase = "failed" => ~(WellFormed(env) /\ NoLastingForeignDomain(env, db))
=============================================================================

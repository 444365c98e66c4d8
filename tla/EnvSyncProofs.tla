--------------------------- MODULE EnvSyncProofs ---------------------------
(***************************************************************************)
(* Everything EnvSync promises, for every environment, any number of       *)
(* tenants, domains, servers, edits and crashes.  None of it is inductive: *)
(* what a command has done so far is in the rows its transaction sees, and *)
(* later handles must leave it alone.                                      *)
(*   IInv      how far the running command is, handle by handle;           *)
(*   TypeInv   the rows are rows and their foreign keys resolve;           *)
(*   TouchInv  what the transaction has not touched of the committed rows; *)
(*   OriginInv where a domain that the transaction sees comes from.        *)
(* EnvAuthoritative and PruneComplete follow from the first; the action    *)
(* properties compare the rows of a commit with those before it and take   *)
(* the first three; FailsForCause takes the last.                          *)
(***************************************************************************)
EXTENDS EnvSync, FiniteSetTheorems, TLAPS

\* sync_tenants has brought the handles before n in line, except for the
\* domains still to be created, of the last of them.
TenantsSoFar(d, e, n, left) ==
    \A i \in DOMAIN e.tenants : LastTenant(e, i) /\ i < n =>
        /\ e.tenants[i].slug \in DOMAIN d.tenants
        /\ d.tenants[e.tenants[i].slug] = [managed |-> TRUE, enabled |-> e.tenants[i].enabled]
        /\ Range(e.tenants[i].domains)
              = DomainsOf(d, e.tenants[i].slug) \cup (IF i = n - 1 THEN Range(left) ELSE {})

AllTenants(d, e) ==
    \A i \in DOMAIN e.tenants : LastTenant(e, i) => TenantMatches(d, e.tenants[i])

NoneStale(d, e) ==
    e.tenants # <<>> /\ e.pruneTenants => StaleTenants(d, e) = {}

ServersSoFar(d, e, n) ==
    \A i \in DOMAIN e.servers :
        LastServer(e, i) /\ i < n => ServerMatches(d, e.servers[i])

AllServers(d, e) ==
    \A i \in DOMAIN e.servers : LastServer(e, i) => ServerMatches(d, e.servers[i])

\* --prune of sync_directory_servers has nothing to do.
NoneLeft(d, e) ==
    e.servers # <<>> /\ e.pruneServers =>
        \A n \in ServerName \ Names(e) :
            \A k \in DOMAIN d.servers[n] : ~d.servers[n][k].managed

Control ==
    /\ env \in Env
    /\ at \in Nat \ {0}
    /\ todo \in Seq(Domain)
    /\ todo # <<>> => at - 1 \in DOMAIN env.tenants
    /\ DOMAIN db.servers = ServerName
    /\ DOMAIN work.servers = ServerName

SettledInv ==
    settled => /\ AllTenants(db, env) /\ NoneStale(db, env)
               /\ AllServers(db, env) /\ NoneLeft(db, env)

TenantsInv ==
    phase = "tenants" =>
        /\ env.tenants # <<>>
        /\ TenantsSoFar(work, env, at, todo)
        /\ at <= Len(env.tenants) + 1
        /\ settled => AllServers(work, env) /\ NoneStale(work, env) /\ NoneLeft(work, env)

ServersInv ==
    phase = "servers" =>
        /\ AllTenants(work, env)
        /\ NoneStale(work, env)
        /\ ServersSoFar(work, env, at)
        /\ at <= Len(env.servers) + 1
        /\ todo = <<>>
        /\ settled => NoneLeft(work, env)

IInv == Control /\ SettledInv /\ TenantsInv /\ ServersInv

-----------------------------------------------------------------------------
(* The operators. *)

LEMMA PutValue ==
    ASSUME NEW f, NEW k, NEW v
    PROVE  /\ DOMAIN Put(f, k, v) = DOMAIN f \cup {k}
           /\ Put(f, k, v)[k] = v
           /\ \A x \in DOMAIN f : x # k => Put(f, k, v)[x] = f[x]
PROOF BY DEF Put

LEMMA RestrictValue ==
    ASSUME NEW f, NEW S \in SUBSET DOMAIN f
    PROVE  /\ DOMAIN Restrict(f, S) = S
           /\ \A x \in S : Restrict(f, S)[x] = f[x]
PROOF BY DEF Restrict

LEMMA TablesFields ==
    ASSUME NEW t, NEW o, NEW s
    PROVE  /\ Tables(t, o, s).tenants = t
           /\ Tables(t, o, s).owner = o
           /\ Tables(t, o, s).servers = s
PROOF BY DEF Tables

\* The domains of the other tenants stay, its own are gone.
LEMMA GoneDomains ==
    ASSUME NEW d, NEW e, NEW slug, e.owner = DomainsGone(d.owner, slug)
    PROVE  /\ DomainsOf(e, slug) = {}
           /\ \A other : other # slug => DomainsOf(e, other) = DomainsOf(d, other)
PROOF
<1> DEFINE kept == {x \in DOMAIN d.owner : d.owner[x] # slug}
<1>1. /\ DOMAIN DomainsGone(d.owner, slug) = kept
      /\ \A x \in kept : DomainsGone(d.owner, slug)[x] = d.owner[x]
  BY RestrictValue DEF DomainsGone
<1> QED BY <1>1 DEF DomainsOf

\* What sync_tenants does to the row of a tenant.
LEMMA WithTenantEffect ==
    ASSUME NEW d, NEW p
    PROVE  LET e == WithTenant(d, p)
           IN  /\ DOMAIN e.tenants = DOMAIN d.tenants \cup {p.slug}
               /\ e.tenants[p.slug] = [managed |-> TRUE, enabled |-> p.enabled]
               /\ \A s \in DOMAIN d.tenants : s # p.slug => e.tenants[s] = d.tenants[s]
               /\ DomainsOf(e, p.slug) = {}
               /\ \A s : s # p.slug => DomainsOf(e, s) = DomainsOf(d, s)
               /\ e.servers = d.servers
PROOF
<1> DEFINE row == [managed |-> TRUE, enabled |-> p.enabled]
           t == Put(d.tenants, p.slug, row)
           e == Tables(t, DomainsGone(d.owner, p.slug), d.servers)
<1>1. /\ DOMAIN t = DOMAIN d.tenants \cup {p.slug}
      /\ t[p.slug] = row
      /\ \A s \in DOMAIN d.tenants : s # p.slug => t[s] = d.tenants[s]
  BY DEF Put
<1>2. e.tenants = t /\ e.owner = DomainsGone(d.owner, p.slug) /\ e.servers = d.servers
  BY DEF Tables
<1>3. /\ DomainsOf(e, p.slug) = {}
      /\ \A s : s # p.slug => DomainsOf(e, s) = DomainsOf(d, s)
  <2> HIDE DEF e
  <2> QED BY <1>2, GoneDomains
<1>4. WithTenant(d, p) = e
  BY DEF WithTenant
<1> HIDE DEF e
<1> QED BY <1>1, <1>2, <1>3, <1>4

\* What sync_tenants does to the domains of a tenant.
LEMMA WithDomainEffect ==
    ASSUME NEW d, NEW slug, NEW x, x \notin DOMAIN d.owner
    PROVE  LET e == WithDomain(d, slug, x)
           IN  /\ e.tenants = d.tenants
               /\ e.servers = d.servers
               /\ DomainsOf(e, slug) = DomainsOf(d, slug) \cup {x}
               /\ \A s : s # slug => DomainsOf(e, s) = DomainsOf(d, s)
PROOF
<1> DEFINE owner == Put(d.owner, x, slug)
           e == WithDomain(d, slug, x)
<1>1. /\ DOMAIN owner = DOMAIN d.owner \cup {x}
      /\ owner[x] = slug
      /\ \A y \in DOMAIN d.owner : owner[y] = d.owner[y]
  <2>1. \A y \in DOMAIN d.owner : y # x
    OBVIOUS
  <2> QED BY <2>1 DEF Put
<1>2. e.owner = owner /\ e.tenants = d.tenants /\ e.servers = d.servers
  BY TablesFields DEF WithDomain
<1> HIDE DEF owner, e
<1>3. \A s : DomainsOf(e, s) = {y \in DOMAIN owner : owner[y] = s}
  BY <1>2 DEF DomainsOf
<1>4. \A s : DomainsOf(d, s) = {y \in DOMAIN d.owner : d.owner[y] = s}
  BY DEF DomainsOf
<1>5. DomainsOf(e, slug) = DomainsOf(d, slug) \cup {x}
  BY <1>1, <1>3, <1>4
<1>6. \A s : s # slug => DomainsOf(e, s) = DomainsOf(d, s)
  BY <1>1, <1>3, <1>4
<1> QED BY <1>2, <1>5, <1>6 DEF e

\* --prune of sync_tenants leaves the tenants of the environment, their rows
\* and domains; without a stale tenant it leaves everything.
LEMMA WithoutTenantsEffect ==
    ASSUME NEW d, NEW gone
    PROVE  LET e == WithoutTenants(d, gone)
           IN  /\ DOMAIN e.tenants = DOMAIN d.tenants \ gone
               /\ \A s \in DOMAIN d.tenants \ gone : e.tenants[s] = d.tenants[s]
               /\ \A s : s \notin gone => DomainsOf(e, s) = DomainsOf(d, s)
               /\ DOMAIN e.servers = ServerName
               /\ gone = {} => \A n \in ServerName :
                      /\ DOMAIN e.servers[n] = DOMAIN d.servers[n]
                      /\ \A k \in DOMAIN d.servers[n] : e.servers[n][k] = d.servers[n][k]
PROOF
<1> DEFINE left == DOMAIN d.tenants \ gone
           kept == {x \in DOMAIN d.owner : d.owner[x] \notin gone}
           t == Restrict(d.tenants, left)
           o == Restrict(d.owner, kept)
           v == [n \in ServerName |-> [i \in DOMAIN d.servers[n] |->
                    IF d.servers[n][i].tenant \in gone
                    THEN [d.servers[n][i] EXCEPT !.tenant = NoTenant]
                    ELSE d.servers[n][i]]]
           e == WithoutTenants(d, gone)
<1>1. e.tenants = t /\ e.owner = o /\ e.servers = v
  BY TablesFields DEF WithoutTenants
<1>2. DOMAIN t = left /\ \A s \in left : t[s] = d.tenants[s]
  BY RestrictValue
<1>3. DOMAIN o = kept /\ \A x \in kept : o[x] = d.owner[x]
  BY RestrictValue
<1>4. DOMAIN v = ServerName
  OBVIOUS
<1>5. ASSUME gone = {}, NEW n \in ServerName
      PROVE  /\ DOMAIN v[n] = DOMAIN d.servers[n]
             /\ \A k \in DOMAIN d.servers[n] : v[n][k] = d.servers[n][k]
  BY <1>5
<1> HIDE DEF o, t, v, e
<1>6. \A s : s \notin gone => DomainsOf(e, s) = DomainsOf(d, s)
  BY <1>1, <1>3 DEF DomainsOf
<1>7. QED BY <1>1, <1>2, <1>4, <1>5, <1>6 DEF e

LEMMA TenantsPrunedEffect ==
    ASSUME NEW d, NEW e, NEW i \in DOMAIN e.tenants, TenantMatches(d, e.tenants[i])
    PROVE  TenantMatches(TenantsPruned(d, e), e.tenants[i])
PROOF
<1> DEFINE gone == StaleTenants(d, e)
<1>1. CASE ~e.pruneTenants
  BY <1>1 DEF TenantsPruned
<1>2. CASE e.pruneTenants
  <2>1. e.tenants[i].slug \notin gone
    BY DEF StaleTenants, Slugs, Range
  <2>2. TenantsPruned(d, e) = WithoutTenants(d, gone)
    BY <1>2 DEF TenantsPruned
  <2> QED BY <2>1, <2>2, WithoutTenantsEffect DEF TenantMatches
<1> QED BY <1>1, <1>2

\* The row that is overwritten or created is the first of its name.
LEMMA TargetIsFirst ==
    ASSUME NEW rows, NEW k \in Numbers, NEW row, IsTarget(k, rows)
    PROVE  /\ IsFirst(k, Put(rows, k, row))
           /\ Put(rows, k, row)[k] = row
PROOF
<1>1. DOMAIN Put(rows, k, row) = DOMAIN rows \cup {k} /\ Put(rows, k, row)[k] = row
  BY DEF Put
<1>2. k <= k
  BY EnvAssumption DEF Numbers
<1>3. \A j \in DOMAIN rows : k <= j
  BY DEF IsTarget, IsFirst
<1> QED BY <1>1, <1>2, <1>3 DEF IsFirst

LEMMA WithServerEffect ==
    ASSUME NEW d, NEW p, NEW k \in Numbers, IsTarget(k, d.servers[p.name])
    PROVE  LET e == WithServer(d, p, k)
           IN  /\ ServerMatches(e, p)
               /\ \A n \in DOMAIN d.servers : n # p.name => e.servers[n] = d.servers[n]
               /\ DOMAIN e.servers = DOMAIN d.servers \cup {p.name}
               /\ e.tenants = d.tenants /\ e.owner = d.owner
PROOF
<1> DEFINE row == Row(TRUE, p.tenant, p.urls)
           rows == Put(d.servers[p.name], k, row)
           e == WithServer(d, p, k)
<1>1. /\ e.tenants = d.tenants /\ e.owner = d.owner
      /\ e.servers = Put(d.servers, p.name, rows)
  BY DEF WithServer, Tables
<1>2. IsFirst(k, rows) /\ rows[k] = row
  BY TargetIsFirst
<1> HIDE DEF rows, row, e
<1>3. /\ DOMAIN e.servers = DOMAIN d.servers \cup {p.name}
      /\ e.servers[p.name] = rows
      /\ \A n \in DOMAIN d.servers : n # p.name => e.servers[n] = d.servers[n]
  BY <1>1 DEF Put
<1>4. ServerMatches(e, p)
  BY <1>2, <1>3 DEF ServerMatches, IsFirst, row
<1> QED BY <1>1, <1>3, <1>4 DEF e

LEMMA ServersPrunedEffect ==
    ASSUME NEW d, NEW e, DOMAIN d.servers = ServerName
    PROVE  /\ ServersPruned(d, e).tenants = d.tenants
           /\ ServersPruned(d, e).owner = d.owner
           /\ DOMAIN ServersPruned(d, e).servers = ServerName
           /\ \A n \in ServerName \cap Names(e) : ServersPruned(d, e).servers[n] = d.servers[n]
PROOF
<1>1. CASE ~e.pruneServers
  BY <1>1 DEF ServersPruned
<1>2. CASE e.pruneServers
  BY <1>2 DEF ServersPruned, Tables
<1> QED BY <1>1, <1>2

-----------------------------------------------------------------------------
(* What a statement and a commit keep of the handles done so far. *)

LEMMA EnvFacts ==
    ASSUME NEW e \in Env
    PROVE  /\ e.tenants \in Seq(TenantPayload)
           /\ e.servers \in Seq(ServerPayload)
           /\ \A i \in DOMAIN e.tenants : i \in Nat \ {0} /\ e.tenants[i].domains \in Seq(Domain)
           /\ \A i \in DOMAIN e.servers : i \in Nat \ {0} /\ e.servers[i].name \in ServerName
PROOF
<1>1. e.tenants \in Seq(TenantPayload) /\ e.servers \in Seq(ServerPayload)
  BY EnvAssumption DEF IsEnv
<1>2. \A i \in DOMAIN e.tenants : i \in Nat \ {0} /\ e.tenants[i].domains \in Seq(Domain)
  <2> TAKE i \in DOMAIN e.tenants
  <2>1. i \in Nat \ {0} /\ e.tenants[i] \in TenantPayload
    BY <1>1
  <2> QED BY <2>1 DEF TenantPayload
<1>3. \A i \in DOMAIN e.servers : i \in Nat \ {0} /\ e.servers[i].name \in ServerName
  <2> TAKE i \in DOMAIN e.servers
  <2>1. i \in Nat \ {0} /\ e.servers[i] \in ServerPayload
    BY <1>1
  <2> QED BY <2>1 DEF ServerPayload
<1> QED BY <1>1, <1>2, <1>3

\* The tenants' part of the rows says all there is to say of tenants.
LEMMA SameTenants ==
    ASSUME NEW d, NEW f, NEW e, f.tenants = d.tenants, f.owner = d.owner
    PROVE  /\ AllTenants(d, e) => AllTenants(f, e)
           /\ NoneStale(d, e) => NoneStale(f, e)
PROOF
<1>1. \A s : DomainsOf(f, s) = DomainsOf(d, s)
  BY DEF DomainsOf
<1>2. \A p : TenantMatches(d, p) => TenantMatches(f, p)
  BY <1>1 DEF TenantMatches
<1>3. StaleTenants(f, e) = StaleTenants(d, e)
  BY DEF StaleTenants
<1> QED BY <1>2, <1>3 DEF AllTenants, NoneStale

LEMMA RangeOfEmpty == Range(<<>>) = {}
PROOF BY DEF Range

LEMMA TenantUpserted ==
    ASSUME NEW d, NEW e \in Env, NEW n \in DOMAIN e.tenants, TenantsSoFar(d, e, n, <<>>)
    PROVE  TenantsSoFar(WithTenant(d, e.tenants[n]), e, n + 1, e.tenants[n].domains)
PROOF
<1> DEFINE p == e.tenants[n]
           f == WithTenant(d, p)
<1>1. /\ DOMAIN f.tenants = DOMAIN d.tenants \cup {p.slug}
      /\ f.tenants[p.slug] = [managed |-> TRUE, enabled |-> p.enabled]
      /\ \A s \in DOMAIN d.tenants : s # p.slug => f.tenants[s] = d.tenants[s]
      /\ DomainsOf(f, p.slug) = {}
      /\ \A s : s # p.slug => DomainsOf(f, s) = DomainsOf(d, s)
  BY WithTenantEffect
<1> HIDE DEF f
<1>2. SUFFICES ASSUME NEW i \in DOMAIN e.tenants, LastTenant(e, i), i < n + 1
               PROVE  /\ e.tenants[i].slug \in DOMAIN f.tenants
                      /\ f.tenants[e.tenants[i].slug]
                            = [managed |-> TRUE, enabled |-> e.tenants[i].enabled]
                      /\ Range(e.tenants[i].domains)
                            = DomainsOf(f, e.tenants[i].slug)
                                 \cup (IF i = (n + 1) - 1 THEN Range(p.domains) ELSE {})
  BY DEF TenantsSoFar, f
<1>3. i \in Nat /\ n \in Nat
  BY EnvFacts
<1>4. CASE i = n
  <2>1. i = (n + 1) - 1
    BY <1>3, <1>4
  <2> QED BY <1>1, <1>4, <2>1
<1>5. CASE i # n
  <2>1. i < n /\ i # (n + 1) - 1 /\ ~(n <= i)
    BY <1>2, <1>3, <1>5
  <2>2. e.tenants[i].slug # p.slug
    BY <1>2, <2>1 DEF LastTenant
  <2>3. /\ e.tenants[i].slug \in DOMAIN d.tenants
        /\ d.tenants[e.tenants[i].slug] = [managed |-> TRUE, enabled |-> e.tenants[i].enabled]
        /\ Range(e.tenants[i].domains) = DomainsOf(d, e.tenants[i].slug)
    BY <1>2, <2>1, RangeOfEmpty DEF TenantsSoFar
  <2> QED BY <1>1, <2>1, <2>2, <2>3
<1> QED BY <1>4, <1>5

LEMMA RangeOfTail ==
    ASSUME NEW S, NEW q \in Seq(S), q # <<>>
    PROVE  Range(q) = {Head(q)} \cup Range(Tail(q))
PROOF
<1>1. /\ Len(q) \in Nat \ {0} /\ DOMAIN q = 1..Len(q) /\ Head(q) = q[1]
      /\ DOMAIN Tail(q) = 1..(Len(q) - 1)
      /\ \A j \in 1..(Len(q) - 1) : Tail(q)[j] = q[j + 1]
  OBVIOUS
<1>2. \A i \in DOMAIN q : q[i] \in {Head(q)} \cup Range(Tail(q))
  <2> TAKE i \in DOMAIN q
  <2>1. CASE i = 1
    BY <1>1, <2>1
  <2>2. CASE i # 1
    <3>1. i - 1 \in DOMAIN Tail(q) /\ Tail(q)[i - 1] = q[i]
      BY <1>1, <2>2
    <3> QED BY <3>1 DEF Range
  <2> QED BY <2>1, <2>2
<1>3. \A j \in DOMAIN Tail(q) : Tail(q)[j] \in Range(q)
  <2> TAKE j \in DOMAIN Tail(q)
  <2>1. j + 1 \in DOMAIN q /\ Tail(q)[j] = q[j + 1]
    BY <1>1
  <2> QED BY <2>1 DEF Range
<1>4. Head(q) \in Range(q)
  BY <1>1 DEF Range
<1> QED BY <1>2, <1>3, <1>4 DEF Range

LEMMA DomainCreated ==
    ASSUME NEW d, NEW e \in Env, NEW n \in Nat \ {0}, n - 1 \in DOMAIN e.tenants,
           NEW left \in Seq(Domain), left # <<>>, Head(left) \notin DOMAIN d.owner,
           TenantsSoFar(d, e, n, left)
    PROVE  TenantsSoFar(WithDomain(d, e.tenants[n - 1].slug, Head(left)), e, n, Tail(left))
PROOF
<1> DEFINE slug == e.tenants[n - 1].slug
           f == WithDomain(d, slug, Head(left))
<1>1. /\ f.tenants = d.tenants
      /\ DomainsOf(f, slug) = DomainsOf(d, slug) \cup {Head(left)}
      /\ \A s : s # slug => DomainsOf(f, s) = DomainsOf(d, s)
  BY WithDomainEffect
<1> HIDE DEF f
<1>2. SUFFICES ASSUME NEW i \in DOMAIN e.tenants, LastTenant(e, i), i < n
               PROVE  /\ e.tenants[i].slug \in DOMAIN f.tenants
                      /\ f.tenants[e.tenants[i].slug]
                            = [managed |-> TRUE, enabled |-> e.tenants[i].enabled]
                      /\ Range(e.tenants[i].domains)
                            = DomainsOf(f, e.tenants[i].slug)
                                 \cup (IF i = n - 1 THEN Range(Tail(left)) ELSE {})
  BY DEF TenantsSoFar, f
<1>3. /\ e.tenants[i].slug \in DOMAIN d.tenants
      /\ d.tenants[e.tenants[i].slug] = [managed |-> TRUE, enabled |-> e.tenants[i].enabled]
      /\ Range(e.tenants[i].domains)
            = DomainsOf(d, e.tenants[i].slug) \cup (IF i = n - 1 THEN Range(left) ELSE {})
  BY <1>2 DEF TenantsSoFar
<1>4. i \in Nat
  BY EnvFacts
<1>5. CASE i = n - 1
  <2>1. Range(left) = {Head(left)} \cup Range(Tail(left))
    BY RangeOfTail
  <2> QED BY <1>1, <1>3, <1>5, <2>1
<1>6. CASE i # n - 1
  <2>1. ~(n - 1 <= i)
    BY <1>2, <1>4, <1>6
  <2>2. e.tenants[i].slug # slug
    BY <1>2, <2>1 DEF LastTenant
  <2> QED BY <1>1, <1>3, <1>6, <2>2
<1> QED BY <1>5, <1>6

LEMMA TenantsCommitted ==
    ASSUME NEW d, NEW e \in Env, NEW n \in Nat \ {0}, n \notin DOMAIN e.tenants,
           n <= Len(e.tenants) + 1, TenantsSoFar(d, e, n, <<>>)
    PROVE  /\ AllTenants(TenantsPruned(d, e), e)
           /\ NoneStale(TenantsPruned(d, e), e)
PROOF
<1>1. DOMAIN e.tenants = 1..Len(e.tenants) /\ Len(e.tenants) \in Nat
  BY EnvFacts
<1>2. \A i \in DOMAIN e.tenants : i < n
  BY <1>1
<1>3. AllTenants(d, e)
  BY <1>2, RangeOfEmpty DEF TenantsSoFar, AllTenants, TenantMatches
<1>4. AllTenants(TenantsPruned(d, e), e)
  BY <1>3, TenantsPrunedEffect DEF AllTenants
<1>5. ASSUME e.pruneTenants
      PROVE  StaleTenants(TenantsPruned(d, e), e) = {}
  <2> DEFINE gone == StaleTenants(d, e)
             f == WithoutTenants(d, gone)
  <2>1. TenantsPruned(d, e) = f
    BY <1>5 DEF TenantsPruned
  <2>2. /\ DOMAIN f.tenants = DOMAIN d.tenants \ gone
        /\ \A s \in DOMAIN d.tenants \ gone : f.tenants[s] = d.tenants[s]
    BY WithoutTenantsEffect
  <2> HIDE DEF f
  <2> QED BY <2>1, <2>2 DEF StaleTenants
<1> QED BY <1>4, <1>5 DEF NoneStale

\* Only the servers of other names count.
LEMMA SameOthers ==
    ASSUME NEW d, NEW f, NEW e, NoneLeft(d, e),
           \A n \in ServerName \ Names(e) :
               /\ DOMAIN f.servers[n] = DOMAIN d.servers[n]
               /\ \A k \in DOMAIN d.servers[n] : f.servers[n][k] = d.servers[n][k]
    PROVE  NoneLeft(f, e)
PROOF BY DEF NoneLeft

\* A boot that finds everything as it left it prunes nothing.
LEMMA NothingToPrune ==
    ASSUME NEW d, NEW e \in Env, e.tenants # <<>>, NoneStale(d, e), AllServers(d, e)
    PROVE  /\ AllServers(TenantsPruned(d, e), e)
           /\ NoneLeft(d, e) => NoneLeft(TenantsPruned(d, e), e)
PROOF
<1>1. CASE ~e.pruneTenants
  BY <1>1 DEF TenantsPruned
<1>2. CASE e.pruneTenants
  <2> DEFINE f == WithoutTenants(d, {})
  <2>1. TenantsPruned(d, e) = f
    BY <1>2 DEF TenantsPruned, NoneStale
  <2>2. \A n \in ServerName :
           /\ DOMAIN f.servers[n] = DOMAIN d.servers[n]
           /\ \A k \in DOMAIN d.servers[n] : f.servers[n][k] = d.servers[n][k]
    BY WithoutTenantsEffect
  <2> HIDE DEF f
  <2>3. \A p : p.name \in ServerName /\ ServerMatches(d, p) => ServerMatches(f, p)
    BY <2>2 DEF ServerMatches, IsFirst
  <2>4. AllServers(f, e)
    BY <2>3, EnvFacts DEF AllServers
  <2>5. NoneLeft(d, e) => NoneLeft(f, e)
    BY <2>2, SameOthers
  <2> QED BY <2>1, <2>4, <2>5
<1> QED BY <1>1, <1>2

LEMMA SameServers ==
    ASSUME NEW d, NEW f, NEW p, f.servers[p.name] = d.servers[p.name], ServerMatches(d, p)
    PROVE  ServerMatches(f, p)
PROOF BY DEF ServerMatches

LEMMA ServerUpserted ==
    ASSUME NEW d, NEW e \in Env, NEW n \in DOMAIN e.servers, NEW k \in Numbers,
           DOMAIN d.servers = ServerName,
           IsTarget(k, d.servers[e.servers[n].name]), ServersSoFar(d, e, n)
    PROVE  /\ ServersSoFar(WithServer(d, e.servers[n], k), e, n + 1)
           /\ NoneLeft(d, e) => NoneLeft(WithServer(d, e.servers[n], k), e)
           /\ DOMAIN WithServer(d, e.servers[n], k).servers = ServerName
PROOF
<1> DEFINE p == e.servers[n]
           f == WithServer(d, p, k)
<1>1. /\ ServerMatches(f, p)
      /\ \A m \in DOMAIN d.servers : m # p.name => f.servers[m] = d.servers[m]
      /\ DOMAIN f.servers = DOMAIN d.servers \cup {p.name}
  BY WithServerEffect
<1> HIDE DEF f
<1>2. ASSUME NEW i \in DOMAIN e.servers, LastServer(e, i), i < n + 1
      PROVE  ServerMatches(f, e.servers[i])
  <2>1. i \in Nat /\ n \in Nat /\ e.servers[i].name \in ServerName
    BY EnvFacts
  <2>2. CASE i = n
    BY <1>1, <2>2
  <2>3. CASE i # n
    <3>1. i < n /\ ~(n <= i)
      BY <1>2, <2>1, <2>3
    <3>2. e.servers[i].name # p.name
      BY <1>2, <3>1 DEF LastServer
    <3>3. ServerMatches(d, e.servers[i])
      BY <1>2, <3>1 DEF ServersSoFar
    <3>4. f.servers[e.servers[i].name] = d.servers[e.servers[i].name]
      BY <1>1, <2>1, <3>2
    <3> QED BY <3>3, <3>4, SameServers
  <2> QED BY <2>2, <2>3
<1>3. p.name \in ServerName
  BY EnvFacts
<1>4. ServersSoFar(f, e, n + 1)
  BY <1>2 DEF ServersSoFar
<1>5. DOMAIN f.servers = ServerName
  BY <1>1, <1>3
<1>6. NoneLeft(d, e) => NoneLeft(f, e)
  <2>1. p.name \in Names(e)
    BY DEF Names, Range
  <2>2. \A m \in ServerName \ Names(e) : f.servers[m] = d.servers[m]
    BY <1>1, <2>1
  <2> QED BY <2>2, SameOthers
<1> QED BY <1>4, <1>5, <1>6 DEF f

LEMMA ServersCommitted ==
    ASSUME NEW d, NEW e \in Env, NEW n \in Nat \ {0}, n \notin DOMAIN e.servers,
           n <= Len(e.servers) + 1, DOMAIN d.servers = ServerName, ServersSoFar(d, e, n)
    PROVE  /\ AllServers(ServersPruned(d, e), e)
           /\ NoneLeft(ServersPruned(d, e), e)
PROOF
<1>1. DOMAIN e.servers = 1..Len(e.servers) /\ Len(e.servers) \in Nat
  BY EnvFacts
<1>2. ASSUME NEW i \in DOMAIN e.servers, LastServer(e, i)
      PROVE  ServerMatches(ServersPruned(d, e), e.servers[i])
  <2>1. i < n
    BY <1>1
  <2>2. ServerMatches(d, e.servers[i])
    BY <1>2, <2>1 DEF ServersSoFar
  <2>3. e.servers[i].name \in ServerName \cap Names(e)
    BY EnvFacts DEF Names, Range
  <2>4. ServersPruned(d, e).servers[e.servers[i].name] = d.servers[e.servers[i].name]
    BY <2>3, ServersPrunedEffect
  <2> QED BY <2>2, <2>4, SameServers
<1>3. AllServers(ServersPruned(d, e), e)
  BY <1>2 DEF AllServers
<1>4. ASSUME e.pruneServers, NEW m \in ServerName \ Names(e),
             NEW k \in DOMAIN ServersPruned(d, e).servers[m]
      PROVE  ~ServersPruned(d, e).servers[m][k].managed
  <2> DEFINE manual == {j \in DOMAIN d.servers[m] : ~d.servers[m][j].managed}
  <2>1. ServersPruned(d, e).servers[m] = Restrict(d.servers[m], manual)
    BY <1>4 DEF ServersPruned, Tables
  <2>2. /\ DOMAIN Restrict(d.servers[m], manual) = manual
        /\ \A j \in manual : Restrict(d.servers[m], manual)[j] = d.servers[m][j]
    BY RestrictValue
  <2> QED BY <2>1, <2>2
<1> QED BY <1>3, <1>4 DEF NoneLeft

LEMMA ServersStayNamed ==
    ASSUME NEW d, NEW e, DOMAIN d.servers = ServerName
    PROVE  DOMAIN TenantsPruned(d, e).servers = ServerName
PROOF
<1>1. CASE ~e.pruneTenants
  BY <1>1 DEF TenantsPruned
<1>2. CASE e.pruneTenants
  BY <1>2, WithoutTenantsEffect DEF TenantsPruned
<1> QED BY <1>1, <1>2

-----------------------------------------------------------------------------
(* The invariant. *)

THEOREM SyncInitially == SyncInit => IInv
PROOF
<1> SUFFICES ASSUME SyncInit PROVE IInv
  OBVIOUS
<1> USE DEF SyncInit
<1>1. DOMAIN Empty.servers = ServerName
  BY DEF Empty, Tables
<1>2. Control
  BY <1>1 DEF Control
<1> QED BY <1>2 DEF IInv, SettledInv, TenantsInv, ServersInv

\* The entrypoint ends without a trace in the rows.
LEMMA Stopped ==
    ASSUME IInv, env' = env, NEW p \in {"down", "failed"}, Enter(p, db)
    PROVE  IInv'
PROOF
<1> USE DEF Enter
<1>1. Control'
  BY DEF IInv, Control
<1>2. SettledInv'
  BY DEF IInv, SettledInv
<1>3. TenantsInv' /\ ServersInv'
  BY DEF TenantsInv, ServersInv
<1> QED BY <1>1, <1>2, <1>3 DEF IInv

LEMMA BootKeeps ==
    ASSUME IInv, Boot
    PROVE  IInv'
PROOF
<1> USE DEF Boot, Enter
<1>1. Control'
  BY DEF IInv, Control
<1>2. CASE env.tenants # <<>>
  <2>1. phase' = "tenants" /\ (settled' => settled)
    BY <1>2
  <2>2. TenantsSoFar(db, env, 1, <<>>) /\ 1 <= Len(env.tenants) + 1
    BY EnvFacts DEF IInv, Control, TenantsSoFar
  <2>3. TenantsInv'
    BY <1>2, <2>1, <2>2 DEF IInv, SettledInv, TenantsInv
  <2> QED BY <1>1, <2>1, <2>3 DEF IInv, SettledInv, ServersInv
<1>3. CASE env.tenants = <<>>
  <2>1. AllTenants(db, env) /\ NoneStale(db, env)
    BY <1>3 DEF AllTenants, NoneStale
  <2>2. CASE env.servers # <<>>
    <3>1. phase' = "servers" /\ (settled' => settled)
      BY <1>3, <2>2 DEF AfterTenants
    <3>2. ServersSoFar(db, env, 1) /\ 1 <= Len(env.servers) + 1
      BY EnvFacts DEF IInv, Control, ServersSoFar
    <3>3. ServersInv'
      BY <2>1, <3>1, <3>2 DEF IInv, SettledInv, ServersInv
    <3> QED BY <1>1, <3>1, <3>3 DEF IInv, SettledInv, TenantsInv
  <2>3. CASE env.servers = <<>>
    <3>1. phase' = "up"
      BY <1>3, <2>3 DEF AfterTenants
    <3>2. AllServers(db, env) /\ NoneLeft(db, env)
      BY <2>3 DEF AllServers, NoneLeft
    <3> QED BY <1>1, <2>1, <3>1, <3>2 DEF IInv, SettledInv, TenantsInv, ServersInv
  <2> QED BY <2>2, <2>3
<1> QED BY <1>2, <1>3

LEMMA UpsertTenantKeeps ==
    ASSUME IInv, UpsertTenant
    PROVE  IInv'
PROOF
<1> USE DEF UpsertTenant, Write, Isolated
<1> DEFINE p == env.tenants[at]
           f == WithTenant(work, p)
<1>1. /\ env \in Env /\ at \in DOMAIN env.tenants /\ at \in Nat \ {0}
      /\ DOMAIN env.tenants = 1..Len(env.tenants) /\ Len(env.tenants) \in Nat
      /\ p.domains \in Seq(Domain)
      /\ p.slug \in Slugs(env)
  BY EnvFacts DEF IInv, Control, Slugs, Range
<1>2. /\ DOMAIN f.tenants = DOMAIN work.tenants \cup {p.slug}
      /\ \A s \in DOMAIN work.tenants : s # p.slug => f.tenants[s] = work.tenants[s]
      /\ f.servers = work.servers
  <2> HIDE DEF p, UpsertTenant, Write, Isolated
  <2>1. DOMAIN f.tenants = DOMAIN work.tenants \cup {p.slug}
    BY WithTenantEffect
  <2>2. f.servers = work.servers
    BY WithTenantEffect
  <2>3. \A s \in DOMAIN work.tenants : s # p.slug => f.tenants[s] = work.tenants[s]
    BY DEF WithTenant, Put, Tables
  <2> QED BY <2>1, <2>2, <2>3
<1>3. TenantsSoFar(f, env, at + 1, p.domains)
  BY <1>1, TenantUpserted DEF IInv, TenantsInv
<1> HIDE DEF f
<1>4. Control'
  <2>1. work' = f /\ todo' = p.domains /\ at' = at + 1
    BY DEF f
  <2>2. at' - 1 \in DOMAIN env.tenants
    BY <1>1, <2>1
  <2> QED BY <1>1, <1>2, <2>1, <2>2 DEF IInv, Control
<1>5. /\ AllServers(work, env) => AllServers(f, env)
      /\ NoneLeft(work, env) => NoneLeft(f, env)
  BY <1>2, SameServers DEF AllServers, NoneLeft
<1>6. NoneStale(work, env) => NoneStale(f, env)
  BY <1>1, <1>2 DEF NoneStale, StaleTenants
<1>7. TenantsInv'
  <2>1. at + 1 <= Len(env.tenants) + 1
    BY <1>1
  <2>2. work' = f
    BY DEF f
  <2> QED BY <1>3, <1>5, <1>6, <2>1, <2>2 DEF IInv, TenantsInv
<1>8. SettledInv' /\ ServersInv'
  BY DEF IInv, SettledInv, ServersInv
<1> QED BY <1>4, <1>7, <1>8 DEF IInv

LEMMA CreateDomainKeeps ==
    ASSUME IInv, CreateDomain
    PROVE  IInv'
PROOF
<1> USE DEF CreateDomain, Write, Isolated
<1> DEFINE slug == env.tenants[at - 1].slug
           f == WithDomain(work, slug, Head(todo))
<1>1. /\ env \in Env /\ at \in Nat \ {0} /\ at - 1 \in DOMAIN env.tenants
      /\ todo \in Seq(Domain) /\ Tail(todo) \in Seq(Domain)
  BY DEF IInv, Control
<1>2. f.tenants = work.tenants /\ f.servers = work.servers
  BY WithDomainEffect
<1>3. TenantsSoFar(f, env, at, Tail(todo))
  BY <1>1, DomainCreated DEF IInv, TenantsInv
<1> HIDE DEF f
<1>4. work' = f
  BY DEF f
<1>5. Control'
  BY <1>1, <1>2, <1>4 DEF IInv, Control
<1>6. /\ AllServers(work, env) => AllServers(f, env)
      /\ NoneLeft(work, env) => NoneLeft(f, env)
  BY <1>2, SameServers DEF AllServers, NoneLeft
<1>7. NoneStale(work, env) => NoneStale(f, env)
  BY <1>2 DEF NoneStale, StaleTenants
<1>8. TenantsInv'
  BY <1>3, <1>4, <1>6, <1>7 DEF IInv, TenantsInv
<1>9. SettledInv' /\ ServersInv'
  BY DEF IInv, SettledInv, ServersInv
<1> QED BY <1>5, <1>8, <1>9 DEF IInv

LEMMA CommitTenantsKeeps ==
    ASSUME IInv, CommitTenants
    PROVE  IInv'
PROOF
<1> USE DEF CommitTenants, Enter
<1> DEFINE f == TenantsPruned(work, env)
<1>1. /\ env \in Env /\ at \in Nat \ {0} /\ at <= Len(env.tenants) + 1
      /\ TenantsSoFar(work, env, at, <<>>) /\ env.tenants # <<>>
  BY DEF IInv, Control, TenantsInv
<1>2. AllTenants(f, env) /\ NoneStale(f, env)
  BY <1>1, TenantsCommitted
<1>3. DOMAIN f.servers = ServerName
  BY ServersStayNamed DEF IInv, Control
<1>4. settled => AllServers(f, env) /\ NoneLeft(f, env)
  BY <1>1, NothingToPrune DEF IInv, TenantsInv
<1> HIDE DEF f
<1>5. db' = f /\ work' = f
  BY DEF f
<1>6. Control'
  BY <1>3, <1>5 DEF IInv, Control
<1>7. CASE env.servers # <<>>
  <2>1. phase' = "servers" /\ (settled' => settled)
    BY <1>7 DEF AfterTenants
  <2>2. ServersSoFar(f, env, 1) /\ 1 <= Len(env.servers) + 1
    BY <1>1, EnvFacts DEF ServersSoFar
  <2>3. ServersInv'
    BY <1>2, <1>4, <1>5, <2>1, <2>2 DEF ServersInv
  <2>4. SettledInv'
    BY <1>2, <1>4, <1>5, <2>1 DEF SettledInv
  <2> QED BY <1>6, <2>1, <2>3, <2>4 DEF IInv, TenantsInv
<1>8. CASE env.servers = <<>>
  <2>1. phase' = "up"
    BY <1>8 DEF AfterTenants
  <2>2. AllServers(f, env) /\ NoneLeft(f, env)
    BY <1>8 DEF AllServers, NoneLeft
  <2>3. SettledInv'
    BY <1>2, <1>5, <2>2 DEF SettledInv
  <2> QED BY <1>6, <2>1, <2>3 DEF IInv, TenantsInv, ServersInv
<1> QED BY <1>7, <1>8

LEMMA UpsertServerKeeps ==
    ASSUME IInv, UpsertServer
    PROVE  IInv'
PROOF
<1> USE DEF UpsertServer, Write, Isolated
<1>1. PICK k \in Numbers : /\ IsTarget(k, work.servers[env.servers[at].name])
                           /\ Write(WithServer(work, env.servers[at], k))
  OBVIOUS
<1> DEFINE f == WithServer(work, env.servers[at], k)
<1>2. /\ env \in Env /\ at \in DOMAIN env.servers /\ at \in Nat \ {0}
      /\ DOMAIN env.servers = 1..Len(env.servers) /\ Len(env.servers) \in Nat
      /\ DOMAIN work.servers = ServerName
  BY EnvFacts DEF IInv, Control
<1>3. /\ ServersSoFar(f, env, at + 1) /\ DOMAIN f.servers = ServerName
      /\ NoneLeft(work, env) => NoneLeft(f, env)
  BY <1>1, <1>2, ServerUpserted DEF IInv, ServersInv
<1>4. f.tenants = work.tenants /\ f.owner = work.owner
  BY <1>1, WithServerEffect
<1> HIDE DEF f
<1>5. AllTenants(f, env) /\ NoneStale(f, env)
  BY <1>4, SameTenants DEF IInv, ServersInv
<1>6. work' = f
  BY <1>1 DEF f
<1>7. Control'
  BY <1>2, <1>3, <1>6 DEF IInv, Control, ServersInv
<1>8. ServersInv'
  <2>1. at + 1 <= Len(env.servers) + 1
    BY <1>2
  <2> QED BY <1>3, <1>5, <1>6, <2>1 DEF IInv, ServersInv
<1>9. SettledInv' /\ TenantsInv'
  BY DEF IInv, SettledInv, TenantsInv
<1> QED BY <1>7, <1>8, <1>9 DEF IInv

LEMMA CommitServersKeeps ==
    ASSUME IInv, CommitServers
    PROVE  IInv'
PROOF
<1> USE DEF CommitServers, Enter
<1> DEFINE f == ServersPruned(work, env)
<1>1. /\ env \in Env /\ at \in Nat \ {0} /\ at <= Len(env.servers) + 1
      /\ ServersSoFar(work, env, at) /\ DOMAIN work.servers = ServerName
  BY DEF IInv, Control, ServersInv
<1>2. AllServers(f, env) /\ NoneLeft(f, env)
  BY <1>1, ServersCommitted
<1>3. f.tenants = work.tenants /\ f.owner = work.owner /\ DOMAIN f.servers = ServerName
  BY <1>1, ServersPrunedEffect
<1> HIDE DEF f
<1>4. AllTenants(f, env) /\ NoneStale(f, env)
  BY <1>3, SameTenants DEF IInv, ServersInv
<1>5. db' = f /\ work' = f
  BY DEF f
<1>6. Control'
  BY <1>3, <1>5 DEF IInv, Control
<1>7. SettledInv'
  BY <1>2, <1>4, <1>5 DEF SettledInv
<1> QED BY <1>6, <1>7 DEF IInv, TenantsInv, ServersInv

LEMMA ConfigureKeeps ==
    ASSUME IInv, Configure
    PROVE  IInv'
PROOF
<1> USE DEF Configure
<1>1. Control'
  BY DEF IInv, Control
<1>2. SettledInv'
  BY DEF IInv, SettledInv
<1> QED BY <1>1, <1>2 DEF IInv, TenantsInv, ServersInv

\* A form is saved while no command runs, and the promise ends with it.
LEMMA EditKeeps ==
    ASSUME IInv, NEW rows, DOMAIN rows.servers = ServerName, Edit(rows)
    PROVE  IInv'
PROOF
<1> USE DEF Edit
<1>1. Control'
  BY DEF IInv, Control
<1> QED BY <1>1 DEF IInv, SettledInv, TenantsInv, ServersInv

LEMMA AdminEditKeeps ==
    ASSUME IInv, AdminEdit
    PROVE  IInv'
PROOF
<1>1. DOMAIN db.servers = ServerName
  BY DEF IInv, Control
<1>2. ASSUME NEW s \in Slug, SaveTenant(s)
      PROVE  IInv'
  <2>1. PICK t, o : Edit(Tables(t, o, db.servers))
    BY <1>2 DEF SaveTenant
  <2> QED BY <1>1, <2>1, TablesFields, EditKeeps
<1>3. ASSUME NEW s \in Slug, DeleteTenant(s)
      PROVE  IInv'
  <2>1. DOMAIN WithoutTenants(db, {s}).servers = ServerName
    BY WithoutTenantsEffect
  <2> QED BY <1>3, <2>1, EditKeeps DEF DeleteTenant
<1>4. ASSUME NEW n \in ServerName, NEW rows,
             Edit(Tables(db.tenants, db.owner, Put(db.servers, n, rows)))
      PROVE  IInv'
  <2> DEFINE f == Tables(db.tenants, db.owner, Put(db.servers, n, rows))
  <2>1. DOMAIN f.servers = ServerName
    BY <1>1 DEF Tables, Put
  <2> HIDE DEF f
  <2>2. Edit(f)
    BY <1>4 DEF f
  <2> QED BY <2>1, <2>2, EditKeeps
<1>5. ASSUME NEW n \in ServerName, NEW k, NEW managed, SaveServer(n, k, managed)
      PROVE  IInv'
  BY <1>4, <1>5 DEF SaveServer
<1>6. ASSUME NEW n \in ServerName, AddServer(n) \/ ChangeServer(n) \/ DeleteServer(n)
      PROVE  IInv'
  BY <1>4, <1>5, <1>6 DEF AddServer, ChangeServer, DeleteServer
<1> QED BY <1>2, <1>3, <1>6 DEF AdminEdit

THEOREM SyncStepKeeps == IInv /\ [SyncNext]_vars => IInv'
PROOF
<1> SUFFICES ASSUME IInv, [SyncNext]_vars PROVE IInv'
  OBVIOUS
<1>1. CASE Boot
  BY <1>1, BootKeeps
<1>2. CASE UpsertTenant
  BY <1>2, UpsertTenantKeeps
<1>3. CASE CreateDomain
  BY <1>3, CreateDomainKeeps
<1>4. CASE CommitTenants
  BY <1>4, CommitTenantsKeeps
<1>5. CASE UpsertServer
  BY <1>5, UpsertServerKeeps
<1>6. CASE CommitServers
  BY <1>6, CommitServersKeeps
<1>7. CASE DomainTaken \/ PayloadInvalid \/ TenantUnknown
  BY <1>7, Stopped DEF DomainTaken, PayloadInvalid, TenantUnknown, Fail
<1>8. CASE Crash
  BY <1>8, Stopped DEF Crash
<1>9. CASE Configure
  BY <1>9, ConfigureKeeps
<1>10. CASE AdminEdit
  BY <1>10, AdminEditKeeps
<1>11. CASE UNCHANGED vars
  <2>1. /\ env' = env /\ phase' = phase /\ at' = at /\ todo' = todo
        /\ work' = work /\ db' = db /\ (settled' => settled)
    BY <1>11 DEF vars, bootVars
  <2> QED BY <2>1 DEF IInv, Control, SettledInv, TenantsInv, ServersInv
<1> QED BY <1>1, <1>2, <1>3, <1>4, <1>5, <1>6, <1>7, <1>8, <1>9, <1>10, <1>11
        DEF SyncNext, SyncStep

\* A settled environment stays in force, row by row, through every later
\* boot and every crash of one, for any number of handles.
THEOREM EnvAuthoritativeAlways == SyncSpec => []EnvAuthoritative
PROOF
<1>1. IInv => EnvAuthoritative
  BY DEF IInv, SettledInv, EnvAuthoritative, AllTenants, AllServers
<1> QED BY <1>1, SyncInitially, SyncStepKeeps, PTL DEF SyncSpec

\* And no env-managed row that the environment does not describe is left.
THEOREM PruneCompleteAlways == SyncSpec => []PruneComplete
PROOF
<1>1. IInv => PruneComplete
  <2> SUFFICES ASSUME IInv, settled PROVE PruneComplete
    BY DEF PruneComplete
  <2>1. NoneStale(db, env) /\ NoneLeft(db, env)
    BY DEF IInv, SettledInv
  <2> QED BY <2>1 DEF NoneStale, NoneLeft, PruneComplete, Range
<1> QED BY <1>1, SyncInitially, SyncStepKeeps, PTL DEF SyncSpec

-----------------------------------------------------------------------------
(* What the rows of the transaction have to do with the committed ones.      *)

ServerRow(d) ==
    [managed : BOOLEAN, tenant : DOMAIN d.tenants \cup {NoTenant}, urls : Url]

IsTables(d) ==
    /\ d = Tables(d.tenants, d.owner, d.servers)
    /\ DOMAIN d.tenants \subseteq Slug /\ d.tenants \in [DOMAIN d.tenants -> TenantRow]
    /\ DOMAIN d.owner \subseteq Domain /\ d.owner \in [DOMAIN d.owner -> DOMAIN d.tenants]
    /\ d.servers = [n \in ServerName |-> d.servers[n]]
    /\ \A n \in ServerName :
          /\ DOMAIN d.servers[n] \subseteq Numbers
          /\ d.servers[n] \in [DOMAIN d.servers[n] -> ServerRow(d)]

TypeInv ==
    /\ phase \in {"down", "tenants", "servers", "up", "failed"}
    /\ IsTables(db)
    /\ IsTables(work)
    /\ edits \in 0..MaxEdits
    /\ crashes \in 0..MaxCrashes
    /\ phase = "tenants" /\ todo # <<>> => env.tenants[at - 1].slug \in DOMAIN work.tenants

\* The tenants of d that the environment e does not list are those of f.
SameElsewhere(d, f, e) ==
    /\ DOMAIN f.tenants \ Slugs(e) = DOMAIN d.tenants \ Slugs(e)
    /\ \A s \in DOMAIN d.tenants \ Slugs(e) :
          f.tenants[s] = d.tenants[s] /\ DomainsOf(f, s) = DomainsOf(d, s)

\* So are the servers, and but for the first of its name those it lists.
SameServersElsewhere(d, f, e) ==
    /\ \A n \in ServerName \ Names(e) : f.servers[n] = d.servers[n]
    /\ settled => \A n \in ServerName \cap Names(e) :
          /\ DOMAIN f.servers[n] = DOMAIN d.servers[n]
          /\ \A k \in DOMAIN d.servers[n] :
                IsFirst(k, d.servers[n]) \/ f.servers[n][k] = d.servers[n][k]

TouchInv ==
    /\ phase \notin {"tenants", "servers"} => work = db
    /\ phase = "tenants" => work.servers = db.servers /\ SameElsewhere(db, work, env)
    /\ phase = "servers" =>
          /\ env.servers # <<>>
          /\ work.tenants = db.tenants /\ work.owner = db.owner
          /\ SameServersElsewhere(db, work, env)

\* Domain x of the running transaction is as it was committed, and its
\* tenant is not yet seen to.
Untouched(x) ==
    /\ x \in DOMAIN db.owner /\ work.owner[x] = db.owner[x]
    /\ \A j \in DOMAIN env.tenants : j < at => env.tenants[j].slug # db.owner[x]

\* Or a handle has created it.
Given(x) ==
    \E j \in DOMAIN env.tenants :
        /\ j < at /\ x \in Range(env.tenants[j].domains)
        /\ j = at - 1 /\ IsInjective(env.tenants[j].domains) => x \notin Range(todo)

OriginInv ==
    phase = "tenants" =>
        /\ \A x \in DOMAIN work.owner : Untouched(x) \/ Given(x)
        /\ todo # <<>> =>
              /\ Range(todo) \subseteq Range(env.tenants[at - 1].domains)
              /\ IsInjective(env.tenants[at - 1].domains) => IsInjective(todo)

LEMMA TablesMade ==
    ASSUME NEW t, NEW o, NEW v,
           DOMAIN t \subseteq Slug, t \in [DOMAIN t -> TenantRow],
           DOMAIN o \subseteq Domain, o \in [DOMAIN o -> DOMAIN t],
           v = [n \in ServerName |-> v[n]],
           \A n \in ServerName :
              /\ DOMAIN v[n] \subseteq Numbers
              /\ v[n] \in [DOMAIN v[n] ->
                     [managed : BOOLEAN, tenant : DOMAIN t \cup {NoTenant}, urls : Url]]
    PROVE  IsTables(Tables(t, o, v))
PROOF BY TablesFields DEF IsTables, ServerRow

\* The row of a server stays one when tenants come.
LEMMA RowStays ==
    ASSUME NEW d, IsTables(d), NEW n \in ServerName, NEW t, DOMAIN d.tenants \subseteq DOMAIN t
    PROVE  d.servers[n] \in [DOMAIN d.servers[n] ->
              [managed : BOOLEAN, tenant : DOMAIN t \cup {NoTenant}, urls : Url]]
PROOF
<1>1. [managed : BOOLEAN, tenant : DOMAIN d.tenants \cup {NoTenant}, urls : Url]
          \subseteq [managed : BOOLEAN, tenant : DOMAIN t \cup {NoTenant}, urls : Url]
  OBVIOUS
<1>2. d.servers[n] \in [DOMAIN d.servers[n] ->
          [managed : BOOLEAN, tenant : DOMAIN d.tenants \cup {NoTenant}, urls : Url]]
  BY DEF IsTables, ServerRow
<1> QED BY <1>1, <1>2

LEMMA TablesTyped == ASSUME NEW d, IsTables(d) PROVE TablesOK(d)
PROOF
<1>1. \A n \in ServerName : \A i \in DOMAIN d.servers[n] :
          d.servers[n][i].tenant \in DOMAIN d.tenants \cup {NoTenant}
  BY DEF IsTables, ServerRow
<1> QED BY <1>1 DEF IsTables, TablesOK

LEMMA TenantTyped ==
    ASSUME NEW d, IsTables(d), NEW p \in TenantPayload
    PROVE  IsTables(WithTenant(d, p))
PROOF
<1> DEFINE row == [managed |-> TRUE, enabled |-> p.enabled]
           t == Put(d.tenants, p.slug, row)
           kept == {x \in DOMAIN d.owner : d.owner[x] # p.slug}
           o == Restrict(d.owner, kept)
<1>1. row \in TenantRow /\ p.slug \in Slug
  BY DEF TenantPayload, TenantRow
<1>0. /\ d.tenants \in [DOMAIN d.tenants -> TenantRow]
      /\ d.owner \in [DOMAIN d.owner -> DOMAIN d.tenants]
  BY DEF IsTables
<1> HIDE DEF row
<1>2. t \in [DOMAIN d.tenants \cup {p.slug} -> TenantRow]
      /\ DOMAIN t = DOMAIN d.tenants \cup {p.slug}
  BY <1>0, <1>1 DEF Put
<1>3. o \in [kept -> DOMAIN d.tenants] /\ DOMAIN o = kept
  BY <1>0 DEF Restrict
<1>4. WithTenant(d, p) = Tables(t, o, d.servers)
  BY DEF WithTenant, DomainsGone, row
<1> HIDE DEF t, o
<1>5. o \in [DOMAIN o -> DOMAIN t] /\ DOMAIN o \subseteq Domain
  BY <1>2, <1>3 DEF IsTables
<1>6. t \in [DOMAIN t -> TenantRow] /\ DOMAIN t \subseteq Slug
  BY <1>1, <1>2 DEF IsTables
<1>7. \A n \in ServerName :
         /\ DOMAIN d.servers[n] \subseteq Numbers
         /\ d.servers[n] \in [DOMAIN d.servers[n] ->
               [managed : BOOLEAN, tenant : DOMAIN t \cup {NoTenant}, urls : Url]]
  BY <1>2, RowStays DEF IsTables
<1>8. d.servers = [n \in ServerName |-> d.servers[n]]
  BY DEF IsTables
<1> QED BY <1>4, <1>5, <1>6, <1>7, <1>8, TablesMade

LEMMA DomainTyped ==
    ASSUME NEW d, IsTables(d), NEW slug \in DOMAIN d.tenants, NEW x \in Domain
    PROVE  IsTables(WithDomain(d, slug, x))
PROOF
<1> DEFINE o == Put(d.owner, x, slug)
<1>0. d.owner \in [DOMAIN d.owner -> DOMAIN d.tenants]
  BY DEF IsTables
<1>1. o \in [DOMAIN d.owner \cup {x} -> DOMAIN d.tenants]
      /\ DOMAIN o = DOMAIN d.owner \cup {x}
  BY <1>0 DEF Put
<1>2. WithDomain(d, slug, x) = Tables(d.tenants, o, d.servers)
  BY DEF WithDomain
<1> HIDE DEF o
<1>3. o \in [DOMAIN o -> DOMAIN d.tenants] /\ DOMAIN o \subseteq Domain
  BY <1>1 DEF IsTables
<1>4. \A n \in ServerName :
         /\ DOMAIN d.servers[n] \subseteq Numbers
         /\ d.servers[n] \in [DOMAIN d.servers[n] ->
               [managed : BOOLEAN, tenant : DOMAIN d.tenants \cup {NoTenant}, urls : Url]]
  BY RowStays DEF IsTables
<1>5. /\ d.servers = [n \in ServerName |-> d.servers[n]]
      /\ DOMAIN d.tenants \subseteq Slug /\ d.tenants \in [DOMAIN d.tenants -> TenantRow]
  BY DEF IsTables
<1> QED BY <1>2, <1>3, <1>4, <1>5, TablesMade

LEMMA WithoutTyped ==
    ASSUME NEW d, IsTables(d), NEW gone
    PROVE  IsTables(WithoutTenants(d, gone))
PROOF
<1> DEFINE left == DOMAIN d.tenants \ gone
           kept == {x \in DOMAIN d.owner : d.owner[x] \notin gone}
           t == Restrict(d.tenants, left)
           o == Restrict(d.owner, kept)
           v == [n \in ServerName |-> [i \in DOMAIN d.servers[n] |->
                    IF d.servers[n][i].tenant \in gone
                    THEN [d.servers[n][i] EXCEPT !.tenant = NoTenant]
                    ELSE d.servers[n][i]]]
           Linked == [managed : BOOLEAN, tenant : left \cup {NoTenant}, urls : Url]
<1>0. /\ d.tenants \in [DOMAIN d.tenants -> TenantRow]
      /\ d.owner \in [DOMAIN d.owner -> DOMAIN d.tenants]
  BY DEF IsTables
<1>1. t \in [left -> TenantRow] /\ DOMAIN t = left
  BY <1>0 DEF Restrict
<1>2. o \in [kept -> DOMAIN d.tenants] /\ DOMAIN o = kept /\ \A x \in kept : o[x] = d.owner[x]
  BY <1>0 DEF Restrict
<1>3. o \in [kept -> left]
  BY <1>2
<1>4. ASSUME NEW n \in ServerName
      PROVE  DOMAIN v[n] \subseteq Numbers /\ v[n] \in [DOMAIN v[n] -> Linked]
  <2>1. ASSUME NEW i \in DOMAIN d.servers[n]
        PROVE  (IF d.servers[n][i].tenant \in gone
                THEN [d.servers[n][i] EXCEPT !.tenant = NoTenant]
                ELSE d.servers[n][i]) \in Linked
    <3>1. d.servers[n][i] \in
              [managed : BOOLEAN, tenant : DOMAIN d.tenants \cup {NoTenant}, urls : Url]
      BY DEF IsTables, ServerRow
    <3> QED BY <3>1
  <2>2. DOMAIN d.servers[n] \subseteq Numbers
    BY DEF IsTables
  <2> HIDE DEF Linked
  <2> QED BY <2>1, <2>2
<1>5. WithoutTenants(d, gone) = Tables(t, o, v)
  BY DEF WithoutTenants
<1>6. v = [n \in ServerName |-> v[n]]
  OBVIOUS
<1> HIDE DEF t, o, v
<1>7. DOMAIN t \subseteq Slug /\ t \in [DOMAIN t -> TenantRow]
  BY <1>1 DEF IsTables
<1>8. DOMAIN o \subseteq Domain /\ o \in [DOMAIN o -> DOMAIN t]
  BY <1>1, <1>2, <1>3 DEF IsTables
<1> QED BY <1>1, <1>4, <1>5, <1>6, <1>7, <1>8, TablesMade

\* The servers of one name are replaced.
LEMMA ServersTyped ==
    ASSUME NEW d, IsTables(d), NEW n \in ServerName, NEW rows,
           DOMAIN rows \subseteq Numbers, rows \in [DOMAIN rows -> ServerRow(d)]
    PROVE  IsTables(Tables(d.tenants, d.owner, Put(d.servers, n, rows)))
PROOF
<1> DEFINE v == Put(d.servers, n, rows)
<1>1. /\ DOMAIN d.servers = ServerName
      /\ DOMAIN d.tenants \subseteq Slug /\ d.tenants \in [DOMAIN d.tenants -> TenantRow]
      /\ DOMAIN d.owner \subseteq Domain /\ d.owner \in [DOMAIN d.owner -> DOMAIN d.tenants]
  BY DEF IsTables
<1>2. v = [m \in ServerName |-> IF m = n THEN rows ELSE d.servers[m]]
  BY <1>1 DEF Put
<1>3. \A m \in ServerName : v[m] = IF m = n THEN rows ELSE d.servers[m]
  BY <1>2
<1> HIDE DEF v
<1>4. v = [m \in ServerName |-> v[m]]
  BY <1>2, <1>3
<1>5. \A m \in ServerName :
         /\ DOMAIN v[m] \subseteq Numbers
         /\ v[m] \in [DOMAIN v[m] ->
               [managed : BOOLEAN, tenant : DOMAIN d.tenants \cup {NoTenant}, urls : Url]]
  BY <1>3 DEF IsTables, ServerRow
<1> QED BY <1>1, <1>4, <1>5, TablesMade DEF v

LEMMA WithServerTyped ==
    ASSUME NEW d, IsTables(d), NEW p \in ServerPayload, NEW k \in Numbers,
           p.tenant \in DOMAIN d.tenants \cup {NoTenant}
    PROVE  IsTables(WithServer(d, p, k))
PROOF
<1> DEFINE row == Row(TRUE, p.tenant, p.urls)
           rows == Put(d.servers[p.name], k, row)
<1>1. p.name \in ServerName /\ p.urls \in Url
  BY DEF ServerPayload
<1>2. row \in ServerRow(d)
  BY <1>1 DEF Row, ServerRow
<1>3. d.servers[p.name] \in [DOMAIN d.servers[p.name] -> ServerRow(d)]
      /\ DOMAIN d.servers[p.name] \subseteq Numbers
  BY <1>1 DEF IsTables
<1> HIDE DEF row
<1>4. rows \in [DOMAIN d.servers[p.name] \cup {k} -> ServerRow(d)]
      /\ DOMAIN rows = DOMAIN d.servers[p.name] \cup {k}
  BY <1>2, <1>3 DEF Put
<1> HIDE DEF rows
<1>5. IsTables(Tables(d.tenants, d.owner, Put(d.servers, p.name, rows)))
  BY <1>1, <1>3, <1>4, ServersTyped
<1> QED BY <1>5 DEF WithServer, rows, row

LEMMA ServersPrunedTyped == ASSUME NEW d, IsTables(d), NEW e PROVE IsTables(ServersPruned(d, e))
PROOF
<1>1. CASE ~e.pruneServers
  BY <1>1 DEF ServersPruned
<1>2. CASE e.pruneServers
  <2> DEFINE manual(n) == {k \in DOMAIN d.servers[n] : ~d.servers[n][k].managed}
             v == [n \in ServerName |->
                      IF n \in Names(e) THEN d.servers[n] ELSE Restrict(d.servers[n], manual(n))]
  <2>1. ServersPruned(d, e) = Tables(d.tenants, d.owner, v)
    BY <1>2 DEF ServersPruned
  <2>2. v = [n \in ServerName |-> v[n]]
    OBVIOUS
  <2>3. ASSUME NEW n \in ServerName
        PROVE  DOMAIN v[n] \subseteq Numbers /\ v[n] \in [DOMAIN v[n] -> ServerRow(d)]
    <3>1. /\ DOMAIN d.servers[n] \subseteq Numbers
          /\ d.servers[n] \in [DOMAIN d.servers[n] -> ServerRow(d)]
      BY DEF IsTables
    <3>2. /\ Restrict(d.servers[n], manual(n)) \in [manual(n) -> ServerRow(d)]
          /\ DOMAIN Restrict(d.servers[n], manual(n)) = manual(n)
      BY <3>1 DEF Restrict
    <3> QED BY <3>1, <3>2
  <2> HIDE DEF v
  <2>4. /\ DOMAIN d.tenants \subseteq Slug /\ d.tenants \in [DOMAIN d.tenants -> TenantRow]
        /\ DOMAIN d.owner \subseteq Domain /\ d.owner \in [DOMAIN d.owner -> DOMAIN d.tenants]
    BY DEF IsTables
  <2> QED BY <2>1, <2>2, <2>3, <2>4, TablesMade DEF ServerRow
<1> QED BY <1>1, <1>2

LEMMA TenantsPrunedTyped == ASSUME NEW d, IsTables(d), NEW e PROVE IsTables(TenantsPruned(d, e))
PROOF BY WithoutTyped DEF TenantsPruned

\* A command ends, or the next one starts, with these rows.
LEMMA EnterTyped ==
    ASSUME TypeInv, NEW p \in {"down", "tenants", "servers", "up", "failed"},
           NEW rows, IsTables(rows), Enter(p, rows),
           edits' = edits, crashes' \in 0..MaxCrashes
    PROVE  TypeInv'
PROOF BY DEF Enter, TypeInv

\* A form is saved with these rows.
LEMMA EditTyped ==
    ASSUME TypeInv, NEW rows, IsTables(rows), Edit(rows)
    PROVE  TypeInv'
PROOF
<1>1. edits \in Nat /\ edits + 1 \in 0..MaxEdits
  BY EnvAssumption DEF TypeInv, Edit
<1> QED BY <1>1 DEF Edit, TypeInv

LEMMA SaveTenantTyped == ASSUME TypeInv, NEW s \in Slug, SaveTenant(s) PROVE TypeInv'
PROOF
<1> DEFINE others == DomainsGone(db.owner, s)
           row(managed, on) == [managed |-> managed, enabled |-> on]
           owner(domains) ==
               [x \in DOMAIN others \cup domains |-> IF x \in domains THEN s ELSE others[x]]
<1>1. PICK managed \in BOOLEAN, on \in BOOLEAN, domains \in SUBSET Domain :
          Edit(Tables(Put(db.tenants, s, row(managed, on)), owner(domains), db.servers))
  <2>1. PICK kept \in BOOLEAN, on \in BOOLEAN, domains \in SUBSET Domain :
            Edit(Tables(
                Put(db.tenants, s,
                    row(s \in DOMAIN db.tenants /\ db.tenants[s].managed /\ kept, on)),
                owner(domains), db.servers))
    BY DEF SaveTenant
  <2>2. (s \in DOMAIN db.tenants /\ db.tenants[s].managed /\ kept) \in BOOLEAN
    OBVIOUS
  <2> QED BY <2>1, <2>2
<1> DEFINE new == row(managed, on)
           t == Put(db.tenants, s, new)
           o == owner(domains)
<1>2. /\ db.tenants \in [DOMAIN db.tenants -> TenantRow]
      /\ db.owner \in [DOMAIN db.owner -> DOMAIN db.tenants]
      /\ DOMAIN db.tenants \subseteq Slug /\ DOMAIN db.owner \subseteq Domain
      /\ IsTables(db)
  BY DEF TypeInv, IsTables
<1>3. /\ DOMAIN others \subseteq DOMAIN db.owner
      /\ \A x \in DOMAIN others : others[x] \in DOMAIN db.tenants
  BY <1>2, RestrictValue DEF DomainsGone
<1>4. new \in TenantRow
  BY DEF TenantRow
<1> HIDE DEF new, others
<1>5. t \in [DOMAIN db.tenants \cup {s} -> TenantRow] /\ DOMAIN t = DOMAIN db.tenants \cup {s}
  BY <1>2, <1>4 DEF Put
<1>6. DOMAIN o \subseteq Domain /\ o \in [DOMAIN o -> DOMAIN db.tenants \cup {s}]
  BY <1>2, <1>3
<1> HIDE DEF t, o
<1>7. \A n \in ServerName :
         /\ DOMAIN db.servers[n] \subseteq Numbers
         /\ db.servers[n] \in [DOMAIN db.servers[n] ->
               [managed : BOOLEAN, tenant : DOMAIN t \cup {NoTenant}, urls : Url]]
  BY <1>2, <1>5, RowStays DEF IsTables
<1>8. db.servers = [n \in ServerName |-> db.servers[n]]
  BY <1>2 DEF IsTables
<1>9. /\ DOMAIN t \subseteq Slug /\ t \in [DOMAIN t -> TenantRow]
      /\ DOMAIN o \subseteq Domain /\ o \in [DOMAIN o -> DOMAIN t]
  BY <1>2, <1>5, <1>6
<1>10. IsTables(Tables(t, o, db.servers))
  BY <1>7, <1>8, <1>9, TablesMade
<1>11. Edit(Tables(t, o, db.servers))
  BY <1>1 DEF t, o, new
<1> QED BY <1>10, <1>11, EditTyped

LEMMA SaveServerTyped ==
    ASSUME TypeInv, NEW n \in ServerName, NEW k \in Numbers, NEW managed \in BOOLEAN,
           SaveServer(n, k, managed)
    PROVE  TypeInv'
PROOF
<1>1. PICK t \in DOMAIN db.tenants \cup {NoTenant}, urls \in Url :
          Edit(Tables(db.tenants, db.owner,
                      Put(db.servers, n, Put(db.servers[n], k, Row(managed, t, urls)))))
  BY DEF SaveServer
<1> DEFINE row == Row(managed, t, urls)
           rows == Put(db.servers[n], k, row)
<1>2. row \in ServerRow(db)
  BY DEF Row, ServerRow
<1>3. /\ DOMAIN db.servers[n] \subseteq Numbers
      /\ db.servers[n] \in [DOMAIN db.servers[n] -> ServerRow(db)]
      /\ IsTables(db)
  BY DEF TypeInv, IsTables
<1> HIDE DEF row
<1>4. DOMAIN rows \subseteq Numbers /\ rows \in [DOMAIN rows -> ServerRow(db)]
  BY <1>2, <1>3 DEF Put
<1> HIDE DEF rows
<1>5. IsTables(Tables(db.tenants, db.owner, Put(db.servers, n, rows)))
  BY <1>3, <1>4, ServersTyped
<1> QED BY <1>1, <1>5, EditTyped DEF rows, row

LEMMA AdminEditTyped == ASSUME TypeInv, AdminEdit PROVE TypeInv'
PROOF
<1>1. IsTables(db)
  BY DEF TypeInv
<1>2. ASSUME NEW s \in Slug, SaveTenant(s) PROVE TypeInv'
  BY <1>2, SaveTenantTyped
<1>3. ASSUME NEW s \in Slug, DeleteTenant(s) PROVE TypeInv'
  BY <1>1, <1>3, WithoutTyped, EditTyped DEF DeleteTenant
<1>4. ASSUME NEW n \in ServerName, AddServer(n) PROVE TypeInv'
  BY <1>4, SaveServerTyped DEF AddServer
<1>5. ASSUME NEW n \in ServerName, ChangeServer(n) PROVE TypeInv'
  <2>1. PICK k \in DOMAIN db.servers[n] : SaveServer(n, k, db.servers[n][k].managed)
    BY <1>5 DEF ChangeServer
  <2>2. k \in Numbers /\ db.servers[n][k].managed \in BOOLEAN
    BY <1>1 DEF IsTables, ServerRow
  <2> QED BY <2>1, <2>2, SaveServerTyped
<1>6. ASSUME NEW n \in ServerName, DeleteServer(n) PROVE TypeInv'
  <2>1. PICK k \in DOMAIN db.servers[n] :
            Edit(Tables(db.tenants, db.owner,
                    Put(db.servers, n, Restrict(db.servers[n], DOMAIN db.servers[n] \ {k}))))
    BY <1>6 DEF DeleteServer
  <2> DEFINE rows == Restrict(db.servers[n], DOMAIN db.servers[n] \ {k})
  <2>2. /\ DOMAIN db.servers[n] \subseteq Numbers
        /\ db.servers[n] \in [DOMAIN db.servers[n] -> ServerRow(db)]
    BY <1>1 DEF IsTables
  <2>3. DOMAIN rows \subseteq Numbers /\ rows \in [DOMAIN rows -> ServerRow(db)]
    BY <2>2 DEF Restrict
  <2> HIDE DEF rows
  <2>4. IsTables(Tables(db.tenants, db.owner, Put(db.servers, n, rows)))
    BY <1>1, <2>3, ServersTyped
  <2> QED BY <2>1, <2>4, EditTyped DEF rows
<1> QED BY <1>2, <1>3, <1>4, <1>5, <1>6 DEF AdminEdit

LEMMA TypeStep == ASSUME IInv, TypeInv, [SyncNext]_vars PROVE TypeInv'
PROOF
<1>0. /\ IsTables(db) /\ IsTables(work) /\ env \in Env /\ at \in Nat \ {0}
      /\ env.tenants \in Seq(TenantPayload) /\ env.servers \in Seq(ServerPayload)
      /\ edits \in 0..MaxEdits /\ crashes \in 0..MaxCrashes
  BY EnvAssumption DEF TypeInv, IInv, Control, IsEnv
<1>1. ASSUME NEW p \in {"down", "tenants", "servers", "up", "failed"}, NEW rows,
             IsTables(rows), Enter(p, rows), UNCHANGED <<edits, crashes>>
      PROVE  TypeInv'
  BY <1>0, <1>1, EnterTyped
<1>2. CASE Boot
  BY <1>0, <1>1, <1>2 DEF Boot, AfterTenants
<1>3. CASE UpsertTenant
  <2> DEFINE p == env.tenants[at]
             f == WithTenant(work, p)
  <2>1. p \in TenantPayload /\ (at + 1) - 1 = at
    BY <1>0, <1>3 DEF UpsertTenant
  <2>2. IsTables(f)
    BY <1>0, <2>1, TenantTyped
  <2>3. p.slug \in DOMAIN f.tenants
    BY DEF WithTenant, Tables, Put
  <2>4. /\ work' = f /\ at' = at + 1
        /\ UNCHANGED <<env, phase, db, edits, crashes>>
    BY <1>3 DEF UpsertTenant, Write, Isolated
  <2> HIDE DEF f
  <2> QED BY <2>1, <2>2, <2>3, <2>4 DEF TypeInv
<1>4. CASE CreateDomain
  <2> DEFINE slug == env.tenants[at - 1].slug
             f == WithDomain(work, slug, Head(todo))
  <2>1. slug \in DOMAIN work.tenants /\ Head(todo) \in Domain /\ Head(todo) \notin DOMAIN work.owner
    BY <1>4 DEF CreateDomain, TypeInv, IInv, Control
  <2>2. IsTables(f)
    BY <1>0, <2>1, DomainTyped
  <2>3. f.tenants = work.tenants
    BY <2>1, WithDomainEffect
  <2>4. /\ work' = f /\ at' = at
        /\ UNCHANGED <<env, phase, db, edits, crashes>>
    BY <1>4 DEF CreateDomain, Write, Isolated
  <2> HIDE DEF f
  <2> QED BY <2>1, <2>2, <2>3, <2>4 DEF TypeInv
<1>5. CASE CommitTenants
  BY <1>0, <1>1, <1>5, TenantsPrunedTyped DEF CommitTenants, AfterTenants
<1>6. CASE UpsertServer
  <2> DEFINE p == env.servers[at]
  <2>1. PICK k \in Numbers : Write(WithServer(work, p, k))
    BY <1>6 DEF UpsertServer
  <2>2. p \in ServerPayload /\ p.tenant \in DOMAIN work.tenants \cup {NoTenant}
    BY <1>0, <1>6 DEF UpsertServer
  <2>3. IsTables(WithServer(work, p, k))
    BY <1>0, <2>2, WithServerTyped
  <2>4. /\ work' = WithServer(work, p, k) /\ phase = "servers"
        /\ UNCHANGED <<env, phase, db, edits, crashes>>
    BY <1>6, <2>1 DEF UpsertServer, Write, Isolated
  <2> QED BY <2>3, <2>4 DEF TypeInv
<1>7. CASE CommitServers
  BY <1>0, <1>1, <1>7, ServersPrunedTyped DEF CommitServers
<1>8. CASE DomainTaken \/ PayloadInvalid \/ TenantUnknown
  BY <1>0, <1>1, <1>8 DEF DomainTaken, PayloadInvalid, TenantUnknown, Fail
<1>9. CASE Crash
  <2>1. crashes + 1 \in 0..MaxCrashes
    BY <1>0, <1>9, EnvAssumption DEF Crash
  <2> QED BY <1>0, <1>9, <2>1, EnterTyped DEF Crash
<1>10. CASE Configure
  BY <1>0, <1>10 DEF Configure, TypeInv
<1>11. CASE AdminEdit
  BY <1>11, AdminEditTyped
<1>12. CASE UNCHANGED vars
  BY <1>12 DEF vars, bootVars, TypeInv
<1> QED BY <1>2, <1>3, <1>4, <1>5, <1>6, <1>7, <1>8, <1>9, <1>10, <1>11, <1>12
        DEF SyncNext, SyncStep

LEMMA TypeInitially == ASSUME SyncInit PROVE TypeInv
PROOF
<1>1. IsTables(Empty)
  <2> DEFINE none == <<>>
             v == [n \in ServerName |-> none]
  <2>1. DOMAIN none = {}
    OBVIOUS
  <2>2. \A S : none \in [{} -> S]
    OBVIOUS
  <2> HIDE DEF none
  <2>3. \A n \in ServerName : v[n] = none
    OBVIOUS
  <2>4. v = [n \in ServerName |-> v[n]]
    OBVIOUS
  <2> HIDE DEF v
  <2>5. IsTables(Tables(none, none, v))
    BY <2>1, <2>2, <2>3, <2>4, TablesMade
  <2> QED BY <2>5 DEF Empty, none, v
<1> QED BY <1>1, EnvAssumption DEF SyncInit, TypeInv

\* Rows are typed and every foreign key resolves, in the committed rows and
\* in those of the running transaction, at every moment of every boot
\* (sync_tenants, sync_directory_servers, the admin's forms).
THEOREM SyncTypesAlwaysOK == SyncSpec => []SyncTypeOK
PROOF
<1>1. IInv /\ TypeInv => SyncTypeOK
  BY TablesTyped DEF IInv, Control, TypeInv, SyncTypeOK
<1>2. IInv /\ TypeInv /\ [SyncNext]_vars => (IInv /\ TypeInv)'
  BY SyncStepKeeps, TypeStep
<1>3. SyncInit => IInv /\ TypeInv
  BY SyncInitially, TypeInitially
<1> QED BY <1>1, <1>2, <1>3, PTL DEF SyncSpec

-----------------------------------------------------------------------------
(* The last of several handles with one name.                                *)

LEMMA GreatestExists ==
    ASSUME NEW n \in Nat, NEW S \in SUBSET (1..n), S # {}
    PROVE  \E i \in S : \A j \in S : j <= i
PROOF
<1> DEFINE above(i) == (i + 1)..n
           R == StrictSubsetOrdering(1..n)
           T == {above(i) : i \in S}
<1>1. IsFiniteSet(1..n)
  BY FS_Interval
<1>2. IsWellFoundedOn(R, SUBSET (1..n))
  BY <1>1, FS_StrictSubsetOrderingWellFounded, FS_FiniteSubsetsOfFinite
<1>3. T \subseteq SUBSET (1..n) /\ T # {}
  <2>1. \A i \in S : above(i) \in SUBSET (1..n)
    OBVIOUS
  <2> HIDE DEF above
  <2> QED BY <2>1
<1>4. \E x \in T : \A y \in T : <<y, x>> \notin R
  <2> HIDE DEF R, T
  <2> QED BY ONLY <1>2, <1>3, WFMin
<1>5. PICK i \in S : \A j \in S : <<above(j), above(i)>> \notin R
  BY <1>4
<1>6. ASSUME NEW j \in S, ~(j <= i)
      PROVE  FALSE
  <2>1. i \in 1..n /\ j \in 1..n /\ i + 1 <= j
    BY <1>6
  <2>2. above(j) \subseteq above(i)
    BY <2>1
  <2>3. j \in above(i) /\ j \notin above(j)
    BY <2>1
  <2>4. above(i) \in SUBSET (1..n) /\ above(j) \in SUBSET (1..n)
    BY <2>1
  <2>5. <<above(j), above(i)>> \in R
    <3> HIDE DEF above
    <3> QED BY <2>2, <2>3, <2>4 DEF StrictSubsetOrdering
  <2> QED BY <1>5, <2>5
<1> QED BY <1>6

LEMMA LastTenantExists ==
    ASSUME NEW e \in Env, NEW s \in Slugs(e)
    PROVE  \E i \in DOMAIN e.tenants : e.tenants[i].slug = s /\ LastTenant(e, i)
PROOF
<1> DEFINE S == {i \in DOMAIN e.tenants : e.tenants[i].slug = s}
<1>1. DOMAIN e.tenants = 1..Len(e.tenants) /\ Len(e.tenants) \in Nat
  BY EnvFacts
<1>2. S # {}
  BY DEF Slugs, Range
<1>3. PICK i \in S : \A j \in S : j <= i
  <2>1. S \in SUBSET (1..Len(e.tenants))
    BY <1>1
  <2> HIDE DEF S
  <2> QED BY <1>1, <1>2, <2>1, GreatestExists
<1> QED BY <1>3 DEF LastTenant

LEMMA LastServerExists ==
    ASSUME NEW e \in Env, NEW n \in Names(e)
    PROVE  \E i \in DOMAIN e.servers : e.servers[i].name = n /\ LastServer(e, i)
PROOF
<1> DEFINE S == {i \in DOMAIN e.servers : e.servers[i].name = n}
<1>1. DOMAIN e.servers = 1..Len(e.servers) /\ Len(e.servers) \in Nat
  BY EnvFacts
<1>2. S # {}
  BY DEF Names, Range
<1>3. PICK i \in S : \A j \in S : j <= i
  <2>1. S \in SUBSET (1..Len(e.servers))
    BY <1>1
  <2> HIDE DEF S
  <2> QED BY <1>1, <1>2, <2>1, GreatestExists
<1> QED BY <1>3 DEF LastServer

-----------------------------------------------------------------------------
(* TouchInv.                                                                 *)

\* Outside a transaction its rows are the committed ones.
LEMMA EnteredTouches ==
    ASSUME work' = db', phase' = "servers" => env'.servers # <<>>
    PROVE  TouchInv'
PROOF BY DEF TouchInv, SameElsewhere, SameServersElsewhere

LEMMA UpsertTenantTouches == ASSUME IInv, TouchInv, UpsertTenant PROVE TouchInv'
PROOF
<1> DEFINE p == env.tenants[at]
           f == WithTenant(work, p)
<1>1. p.slug \in Slugs(env)
  BY DEF UpsertTenant, Slugs, Range
<1>2. /\ DOMAIN f.tenants = DOMAIN work.tenants \cup {p.slug}
      /\ f.servers = work.servers
      /\ \A s : s # p.slug => DomainsOf(f, s) = DomainsOf(work, s)
  <2> HIDE DEF p
  <2> QED BY WithTenantEffect
<1>3. \A s \in DOMAIN work.tenants : s # p.slug => f.tenants[s] = work.tenants[s]
  BY DEF WithTenant, Put, Tables
<1>4. work' = f /\ db' = db /\ phase = "tenants" /\ UNCHANGED <<env, phase, settled>>
  BY DEF UpsertTenant, Write, Isolated
<1> HIDE DEF f, p
<1>5. work.servers = db.servers /\ SameElsewhere(db, work, env)
  BY <1>4 DEF TouchInv
<1>6. SameElsewhere(db, f, env)
  <2>1. DOMAIN f.tenants \ Slugs(env) = DOMAIN db.tenants \ Slugs(env)
    BY <1>1, <1>2, <1>5 DEF SameElsewhere
  <2>2. ASSUME NEW s \in DOMAIN db.tenants \ Slugs(env)
        PROVE  f.tenants[s] = db.tenants[s] /\ DomainsOf(f, s) = DomainsOf(db, s)
    <3>1. s # p.slug /\ s \in DOMAIN work.tenants
      BY <1>1, <1>5 DEF SameElsewhere
    <3>2. work.tenants[s] = db.tenants[s] /\ DomainsOf(work, s) = DomainsOf(db, s)
      BY <1>5 DEF SameElsewhere
    <3> QED BY <1>2, <1>3, <3>1, <3>2
  <2> QED BY <2>1, <2>2 DEF SameElsewhere
<1> QED BY <1>2, <1>4, <1>5, <1>6 DEF TouchInv

LEMMA CreateDomainTouches == ASSUME IInv, TouchInv, CreateDomain PROVE TouchInv'
PROOF
<1> DEFINE slug == env.tenants[at - 1].slug
           f == WithDomain(work, slug, Head(todo))
<1>1. slug \in Slugs(env)
  BY DEF CreateDomain, Slugs, Range, IInv, Control
<1>2. /\ f.tenants = work.tenants /\ f.servers = work.servers
      /\ \A s : s # slug => DomainsOf(f, s) = DomainsOf(work, s)
  <2>1. Head(todo) \notin DOMAIN work.owner
    BY DEF CreateDomain
  <2> HIDE DEF slug
  <2> QED BY <2>1, WithDomainEffect
<1>3. work' = f /\ db' = db /\ phase = "tenants" /\ UNCHANGED <<env, phase, settled>>
  BY DEF CreateDomain, Write, Isolated
<1> HIDE DEF f, slug
<1>4. work.servers = db.servers /\ SameElsewhere(db, work, env)
  BY <1>3 DEF TouchInv
<1>5. SameElsewhere(db, f, env)
  BY <1>1, <1>2, <1>4 DEF SameElsewhere
<1> QED BY <1>2, <1>3, <1>4, <1>5 DEF TouchInv

LEMMA UpsertServerTouches == ASSUME IInv, TouchInv, UpsertServer PROVE TouchInv'
PROOF
<1> DEFINE p == env.servers[at]
<1>1. PICK k \in Numbers :
          /\ IsTarget(k, work.servers[p.name])
          /\ Write(WithServer(work, p, k))
  BY DEF UpsertServer
<1> DEFINE f == WithServer(work, p, k)
           row == Row(TRUE, p.tenant, p.urls)
<1>2. /\ env \in Env /\ p.name \in Names(env) /\ p.name \in ServerName
      /\ DOMAIN work.servers = ServerName
  BY EnvFacts DEF UpsertServer, IInv, Control, Names, Range
<1>3. /\ work' = f /\ db' = db /\ phase = "servers"
      /\ UNCHANGED <<env, phase, settled>>
  BY <1>1 DEF UpsertServer, Write, Isolated
<1>4. /\ f.tenants = work.tenants /\ f.owner = work.owner
      /\ f.servers = Put(work.servers, p.name, Put(work.servers[p.name], k, row))
  BY DEF WithServer, Tables
<1> HIDE DEF f, row
<1>5. /\ \A n \in ServerName : n # p.name => f.servers[n] = work.servers[n]
      /\ f.servers[p.name] = Put(work.servers[p.name], k, row)
  BY <1>2, <1>4 DEF Put
<1>6. /\ env.servers # <<>>
      /\ work.tenants = db.tenants /\ work.owner = db.owner
      /\ SameServersElsewhere(db, work, env)
  BY <1>3 DEF TouchInv
<1>7. \A n \in ServerName \ Names(env) : f.servers[n] = db.servers[n]
  BY <1>2, <1>5, <1>6 DEF SameServersElsewhere
<1>8. ASSUME settled, NEW n \in ServerName \cap Names(env)
      PROVE  /\ DOMAIN f.servers[n] = DOMAIN db.servers[n]
             /\ \A j \in DOMAIN db.servers[n] :
                   IsFirst(j, db.servers[n]) \/ f.servers[n][j] = db.servers[n][j]
  <2>1. /\ DOMAIN work.servers[n] = DOMAIN db.servers[n]
        /\ \A j \in DOMAIN db.servers[n] :
              IsFirst(j, db.servers[n]) \/ work.servers[n][j] = db.servers[n][j]
    BY <1>6, <1>8 DEF SameServersElsewhere
  <2>2. CASE n # p.name
    BY <1>5, <2>1, <2>2
  <2>3. CASE n = p.name
    <3>1. PICK i \in DOMAIN env.servers : env.servers[i].name = n /\ LastServer(env, i)
      BY <1>2, LastServerExists
    <3>2. ServerMatches(db, env.servers[i])
      BY <1>8, <3>1 DEF IInv, SettledInv, AllServers
    <3>3. DOMAIN db.servers[n] # {}
      BY <3>1, <3>2 DEF ServerMatches
    <3>4. IsFirst(k, db.servers[n])
      BY <1>1, <2>1, <2>3, <3>3 DEF IsTarget, IsFirst
    <3>5. /\ DOMAIN f.servers[n] = DOMAIN work.servers[n] \cup {k}
          /\ \A j \in DOMAIN work.servers[n] : j # k => f.servers[n][j] = work.servers[n][j]
      BY <1>5, <2>3 DEF Put
    <3>6. k \in DOMAIN db.servers[n]
      BY <3>4 DEF IsFirst
    <3> QED BY <2>1, <3>4, <3>5, <3>6
  <2> QED BY <2>2, <2>3
<1>9. SameServersElsewhere(db, f, env)
  BY <1>7, <1>8 DEF SameServersElsewhere
<1> QED BY <1>3, <1>4, <1>6, <1>9 DEF TouchInv, SameServersElsewhere

LEMMA FormSaved == ASSUME AdminEdit PROVE \E rows : Edit(rows)
PROOF BY DEF AdminEdit, SaveTenant, DeleteTenant, AddServer, ChangeServer, SaveServer, DeleteServer

LEMMA TouchStep == ASSUME IInv, TouchInv, [SyncNext]_vars PROVE TouchInv'
PROOF
<1>1. CASE Boot \/ CommitTenants
  BY <1>1, EnteredTouches DEF Boot, CommitTenants, Enter, AfterTenants
<1>2. CASE UpsertTenant
  BY <1>2, UpsertTenantTouches
<1>3. CASE CreateDomain
  BY <1>3, CreateDomainTouches
<1>4. CASE UpsertServer
  BY <1>4, UpsertServerTouches
<1>5. CASE DomainTaken \/ PayloadInvalid \/ TenantUnknown \/ CommitServers \/ Crash
  BY <1>5, EnteredTouches
     DEF DomainTaken, PayloadInvalid, TenantUnknown, Fail, CommitServers, Crash, Enter
<1>6. CASE Configure
  BY <1>6, EnteredTouches DEF Configure
<1>7. CASE AdminEdit
  <2>1. PICK rows : Edit(rows)
    BY <1>7, FormSaved
  <2> QED BY <2>1, EnteredTouches DEF Edit
<1>8. CASE UNCHANGED vars
  BY <1>8 DEF vars, bootVars, TouchInv, SameElsewhere, SameServersElsewhere
<1> QED BY <1>1, <1>2, <1>3, <1>4, <1>5, <1>6, <1>7, <1>8 DEF SyncNext, SyncStep

-----------------------------------------------------------------------------
(* A later boot with the same environment writes what is there.              *)

\* Two sets of rows that agree row by row are one.
LEMMA SameRows ==
    ASSUME NEW d, NEW f, IsTables(d), IsTables(f),
           DOMAIN f.tenants = DOMAIN d.tenants,
           \A s \in DOMAIN d.tenants :
              f.tenants[s] = d.tenants[s] /\ DomainsOf(f, s) = DomainsOf(d, s)
    PROVE  f.tenants = d.tenants /\ f.owner = d.owner
PROOF
<1>1. /\ d.tenants \in [DOMAIN d.tenants -> TenantRow]
      /\ f.tenants \in [DOMAIN f.tenants -> TenantRow]
      /\ d.owner \in [DOMAIN d.owner -> DOMAIN d.tenants]
      /\ f.owner \in [DOMAIN f.owner -> DOMAIN f.tenants]
  BY DEF IsTables
<1>2. f.tenants = d.tenants
  BY <1>1
<1>3. \A x \in DOMAIN d.owner : x \in DOMAIN f.owner /\ f.owner[x] = d.owner[x]
  BY <1>1 DEF DomainsOf
<1>4. \A x \in DOMAIN f.owner : x \in DOMAIN d.owner
  BY <1>1 DEF DomainsOf
<1>5. DOMAIN f.owner = DOMAIN d.owner
  BY <1>3, <1>4
<1>6. f.owner = d.owner
  BY <1>1, <1>3, <1>5
<1> QED BY <1>2, <1>6

LEMMA RestrictAll ==
    ASSUME NEW S, NEW T, NEW f \in [S -> T], NEW R, R = S PROVE Restrict(f, R) = f
PROOF BY DEF Restrict

\* Tenant.delete() is called for no tenant.
LEMMA NobodyGone == ASSUME NEW d, IsTables(d) PROVE WithoutTenants(d, {}) = d
PROOF
<1> DEFINE left == DOMAIN d.tenants \ {}
           kept == {x \in DOMAIN d.owner : d.owner[x] \notin {}}
           rows(n) == [i \in DOMAIN d.servers[n] |->
                         IF d.servers[n][i].tenant \in {}
                         THEN [d.servers[n][i] EXCEPT !.tenant = NoTenant]
                         ELSE d.servers[n][i]]
<1>1. /\ d.tenants \in [DOMAIN d.tenants -> TenantRow]
      /\ d.owner \in [DOMAIN d.owner -> DOMAIN d.tenants]
      /\ d = Tables(d.tenants, d.owner, d.servers)
      /\ d.servers = [n \in ServerName |-> d.servers[n]]
  BY DEF IsTables
<1>2. Restrict(d.tenants, left) = d.tenants
  <2>1. left = DOMAIN d.tenants
    OBVIOUS
  <2> HIDE DEF left
  <2> QED BY <1>1, <2>1, RestrictAll
<1>3. Restrict(d.owner, kept) = d.owner
  <2>1. kept = DOMAIN d.owner
    OBVIOUS
  <2> HIDE DEF kept
  <2> QED BY <1>1, <2>1, RestrictAll
<1>4. ASSUME NEW n \in ServerName PROVE rows(n) = d.servers[n]
  <2>1. d.servers[n] \in [DOMAIN d.servers[n] -> ServerRow(d)]
    BY DEF IsTables
  <2>2. rows(n) = [i \in DOMAIN d.servers[n] |-> d.servers[n][i]]
    OBVIOUS
  <2> HIDE DEF rows
  <2> QED BY <2>1, <2>2
<1>5. WithoutTenants(d, {})
          = Tables(Restrict(d.tenants, left), Restrict(d.owner, kept),
                   [n \in ServerName |-> rows(n)])
  BY DEF WithoutTenants
<1> HIDE DEF left, kept, rows
<1>6. [n \in ServerName |-> rows(n)] = d.servers
  BY <1>1, <1>4
<1> QED BY <1>1, <1>2, <1>3, <1>5, <1>6

LEMMA SettledTenants ==
    ASSUME IInv, TypeInv, TouchInv, settled, CommitTenants PROVE db' = db
PROOF
<1>1. /\ phase = "tenants" /\ todo = <<>> /\ at \notin DOMAIN env.tenants
      /\ db' = TenantsPruned(work, env)
  BY DEF CommitTenants, Enter
<1>2. /\ env \in Env /\ at \in Nat \ {0} /\ env.tenants # <<>>
      /\ TenantsSoFar(work, env, at, <<>>) /\ at <= Len(env.tenants) + 1
      /\ NoneStale(work, env) /\ AllTenants(db, env)
      /\ IsTables(work) /\ IsTables(db)
      /\ work.servers = db.servers /\ SameElsewhere(db, work, env)
  BY <1>1 DEF IInv, Control, TenantsInv, SettledInv, TypeInv, TouchInv
<1>3. TenantsPruned(work, env) = work
  BY <1>2, NobodyGone DEF TenantsPruned, NoneStale
<1>4. AllTenants(work, env)
  BY <1>1, <1>2, <1>3, TenantsCommitted
<1>5. ASSUME NEW s \in Slugs(env)
      PROVE  /\ s \in DOMAIN work.tenants /\ s \in DOMAIN db.tenants
             /\ work.tenants[s] = db.tenants[s]
             /\ DomainsOf(work, s) = DomainsOf(db, s)
  <2>1. PICK i \in DOMAIN env.tenants : env.tenants[i].slug = s /\ LastTenant(env, i)
    BY <1>2, LastTenantExists
  <2>2. TenantMatches(work, env.tenants[i]) /\ TenantMatches(db, env.tenants[i])
    BY <1>2, <1>4, <2>1 DEF AllTenants
  <2> QED BY <2>1, <2>2 DEF TenantMatches
<1>6. DOMAIN work.tenants = DOMAIN db.tenants
  BY <1>2, <1>5 DEF SameElsewhere
<1>7. \A s \in DOMAIN db.tenants :
          work.tenants[s] = db.tenants[s] /\ DomainsOf(work, s) = DomainsOf(db, s)
  BY <1>2, <1>5 DEF SameElsewhere
<1>8. work.tenants = db.tenants /\ work.owner = db.owner
  BY <1>2, <1>6, <1>7, SameRows
<1>9. /\ work = Tables(work.tenants, work.owner, work.servers)
      /\ db = Tables(db.tenants, db.owner, db.servers)
  BY <1>2 DEF IsTables
<1> QED BY <1>1, <1>2, <1>3, <1>8, <1>9

\* There is one first row of a name.
LEMMA FirstIsUnique ==
    ASSUME NEW rows, DOMAIN rows \subseteq Numbers,
           NEW k, IsFirst(k, rows), NEW j, IsFirst(j, rows)
    PROVE  k = j
PROOF
<1>1. k \in Nat /\ j \in Nat /\ k <= j /\ j <= k
  BY EnvAssumption DEF IsFirst, Numbers
<1> QED BY <1>1

LEMMA SettledServers ==
    ASSUME IInv, TypeInv, TouchInv, settled, CommitServers PROVE db' = db
PROOF
<1> DEFINE f == ServersPruned(work, env)
<1>1. phase = "servers" /\ at \notin DOMAIN env.servers /\ db' = f
  BY DEF CommitServers, Enter
<1>2. /\ env \in Env /\ at \in Nat \ {0} /\ env.servers # <<>>
      /\ ServersSoFar(work, env, at) /\ at <= Len(env.servers) + 1
      /\ NoneLeft(work, env) /\ AllServers(db, env)
      /\ IsTables(work) /\ IsTables(db)
      /\ work.tenants = db.tenants /\ work.owner = db.owner
      /\ SameServersElsewhere(db, work, env)
  BY <1>1 DEF IInv, Control, ServersInv, SettledInv, TypeInv, TouchInv
<1>3. /\ work = Tables(work.tenants, work.owner, work.servers)
      /\ db = Tables(db.tenants, db.owner, db.servers)
      /\ work.servers = [n \in ServerName |-> work.servers[n]]
      /\ db.servers = [n \in ServerName |-> db.servers[n]]
  BY <1>2 DEF IsTables
<1>4. \A n \in ServerName : /\ DOMAIN work.servers[n] \subseteq Numbers
                            /\ DOMAIN db.servers[n] \subseteq Numbers
                            /\ work.servers[n] \in [DOMAIN work.servers[n] -> ServerRow(work)]
                            /\ db.servers[n] \in [DOMAIN db.servers[n] -> ServerRow(db)]
  BY <1>2 DEF IsTables
<1>5. f = work
  <2>1. CASE ~env.pruneServers
    BY <2>1 DEF ServersPruned
  <2>2. CASE env.pruneServers
    <3> DEFINE manual(n) == {k \in DOMAIN work.servers[n] : ~work.servers[n][k].managed}
               left(n) == IF n \in Names(env) THEN work.servers[n]
                          ELSE Restrict(work.servers[n], manual(n))
    <3>1. f = Tables(work.tenants, work.owner, [n \in ServerName |-> left(n)])
      BY <2>2 DEF ServersPruned
    <3>2. ASSUME NEW n \in ServerName \ Names(env)
          PROVE  Restrict(work.servers[n], manual(n)) = work.servers[n]
      <4>1. manual(n) = DOMAIN work.servers[n]
        BY <1>2, <2>2 DEF NoneLeft
      <4> HIDE DEF manual
      <4> QED BY <1>4, <4>1, RestrictAll
    <3> HIDE DEF f, manual
    <3>3. \A n \in ServerName : left(n) = work.servers[n]
      BY <3>2
    <3> HIDE DEF left
    <3>4. [n \in ServerName |-> left(n)] = work.servers
      BY <1>3, <3>3
    <3> QED BY <1>3, <3>1, <3>4
  <2> QED BY <2>1, <2>2
<1>6. AllServers(work, env)
  BY <1>1, <1>2, <1>5, ServersCommitted DEF IsTables
<1>7. ASSUME NEW n \in ServerName PROVE work.servers[n] = db.servers[n]
  <2>1. CASE n \notin Names(env)
    BY <1>2, <2>1 DEF SameServersElsewhere
  <2>2. CASE n \in Names(env)
    <3>1. PICK i \in DOMAIN env.servers : env.servers[i].name = n /\ LastServer(env, i)
      BY <1>2, <2>2, LastServerExists
    <3>2. ServerMatches(work, env.servers[i]) /\ ServerMatches(db, env.servers[i])
      BY <1>2, <1>6, <3>1 DEF AllServers
    <3> DEFINE row == Row(TRUE, env.servers[i].tenant, env.servers[i].urls)
    <3>3. PICK k : IsFirst(k, work.servers[n]) /\ work.servers[n][k] = row
      BY <3>1, <3>2 DEF ServerMatches
    <3>4. PICK j : IsFirst(j, db.servers[n]) /\ db.servers[n][j] = row
      BY <3>1, <3>2 DEF ServerMatches
    <3> HIDE DEF row
    <3>5. /\ DOMAIN work.servers[n] = DOMAIN db.servers[n]
          /\ \A m \in DOMAIN db.servers[n] :
                IsFirst(m, db.servers[n]) \/ work.servers[n][m] = db.servers[n][m]
      BY <1>2, <2>2 DEF SameServersElsewhere
    <3>6. IsFirst(k, db.servers[n])
      BY <3>3, <3>5 DEF IsFirst
    <3>7. \A m : IsFirst(m, db.servers[n]) => m = k /\ m = j
      BY <1>4, <3>4, <3>6, FirstIsUnique
    <3>8. k = j
      BY <3>4, <3>7
    <3>9. \A m \in DOMAIN db.servers[n] : work.servers[n][m] = db.servers[n][m]
      BY <3>3, <3>4, <3>5, <3>7, <3>8
    <3> QED BY <1>4, <3>5, <3>9
  <2> QED BY <2>1, <2>2
<1>8. work.servers = db.servers
  BY <1>3, <1>7
<1> QED BY <1>1, <1>2, <1>3, <1>5, <1>8

\* Only the end of a command and a form that is saved change committed rows.
LEMMA WhoCommits ==
    ASSUME [SyncNext]_vars, ~CommitTenants, ~CommitServers, ~AdminEdit PROVE db' = db
PROOF BY DEF SyncNext, SyncStep, Boot, UpsertTenant, CreateDomain, DomainTaken, PayloadInvalid,
    UpsertServer, TenantUnknown, Crash, Configure, Fail, Write, Isolated, Enter, vars

LEMMA EditSeen == ASSUME TypeInv, AdminEdit PROVE edits' # edits /\ ~settled'
PROOF
<1>1. PICK rows : Edit(rows)
  BY FormSaved
<1>2. edits \in Nat
  BY EnvAssumption DEF TypeInv
<1> QED BY <1>1, <1>2 DEF Edit

\* "idempotent": no statement, commit, prune or crash of a later boot with
\* the same environment leaves a committed row other than it was
\* (sync_tenants, sync_directory_servers: update_or_create in one transaction).
THEOREM SyncAlwaysIdempotent == SyncSpec => Idempotent
PROOF
<1> DEFINE KInv == IInv /\ TypeInv /\ TouchInv
<1>1. SyncInit => KInv
  BY SyncInitially, TypeInitially
     DEF SyncInit, TouchInv
<1>2. KInv /\ [SyncNext]_vars => KInv'
  BY SyncStepKeeps, TypeStep, TouchStep
<1>3. KInv /\ [SyncNext]_vars => [settled /\ settled' => db' = db]_vars
  BY SettledTenants, SettledServers, WhoCommits, EditSeen
<1> QED BY <1>1, <1>2, <1>3, PTL DEF SyncSpec, Idempotent

-----------------------------------------------------------------------------
(* What a commit leaves alone, for an administrator and for the milter.      *)

\* --prune of sync_tenants: a server keeps its row unless its tenant goes.
LEMMA ServersOfThePruned ==
    ASSUME NEW d, NEW e, IsTables(d), NEW n \in ServerName
    PROVE  /\ DOMAIN TenantsPruned(d, e).servers[n] = DOMAIN d.servers[n]
           /\ \A k \in DOMAIN d.servers[n] :
                 IF d.servers[n][k].tenant \in DOMAIN TenantsPruned(d, e).tenants \cup {NoTenant}
                 THEN TenantsPruned(d, e).servers[n][k] = d.servers[n][k]
                 ELSE TenantsPruned(d, e).servers[n][k]
                          = [d.servers[n][k] EXCEPT !.tenant = NoTenant]
PROOF
<1>1. \A k \in DOMAIN d.servers[n] : d.servers[n][k].tenant \in DOMAIN d.tenants \cup {NoTenant}
  BY DEF IsTables, ServerRow
<1>2. CASE ~e.pruneTenants
  BY <1>1, <1>2 DEF TenantsPruned
<1>3. CASE e.pruneTenants
  <2> DEFINE gone == StaleTenants(d, e)
             rows(m) == [i \in DOMAIN d.servers[m] |->
                           IF d.servers[m][i].tenant \in gone
                           THEN [d.servers[m][i] EXCEPT !.tenant = NoTenant]
                           ELSE d.servers[m][i]]
             f == WithoutTenants(d, gone)
  <2>1. TenantsPruned(d, e) = f
    BY <1>3 DEF TenantsPruned
  <2>2. f.servers = [m \in ServerName |-> rows(m)]
    BY TablesFields DEF WithoutTenants
  <2>3. DOMAIN f.tenants = DOMAIN d.tenants \ gone
    BY WithoutTenantsEffect
  <2>4. gone \subseteq Slug /\ NoTenant \notin gone
    BY EnvAssumption DEF StaleTenants, IsTables
  <2> HIDE DEF f, gone
  <2>5. f.servers[n] = rows(n)
    BY <2>2
  <2>6. \A k \in DOMAIN d.servers[n] :
           d.servers[n][k].tenant \in gone
              <=> d.servers[n][k].tenant \notin DOMAIN f.tenants \cup {NoTenant}
    BY <1>1, <2>3, <2>4
  <2> QED BY <2>1, <2>5, <2>6
<1> QED BY <1>2, <1>3

LEMMA TenantsCommitSparesManual ==
    ASSUME IInv, TypeInv, TouchInv, CommitTenants,
           NEW s \in DOMAIN db.tenants \ Slugs(env), ~db.tenants[s].managed
    PROVE  /\ s \in DOMAIN db'.tenants
           /\ db'.tenants[s] = db.tenants[s]
           /\ DomainsOf(db', s) = DomainsOf(db, s)
PROOF
<1> DEFINE f == TenantsPruned(work, env)
           gone == StaleTenants(work, env)
<1>1. db' = f /\ SameElsewhere(db, work, env)
  BY DEF CommitTenants, Enter, TouchInv
<1>2. /\ s \in DOMAIN work.tenants /\ work.tenants[s] = db.tenants[s]
      /\ DomainsOf(work, s) = DomainsOf(db, s)
  BY <1>1 DEF SameElsewhere
<1>3. s \notin gone
  BY <1>2 DEF StaleTenants
<1>4. /\ s \in DOMAIN f.tenants /\ f.tenants[s] = work.tenants[s]
      /\ DomainsOf(f, s) = DomainsOf(work, s)
  <2>1. CASE ~env.pruneTenants
    BY <1>2, <2>1 DEF TenantsPruned
  <2>2. CASE env.pruneTenants
    <3>1. f = WithoutTenants(work, gone)
      BY <2>2 DEF TenantsPruned
    <3> HIDE DEF f, gone
    <3> QED BY <1>2, <1>3, <3>1, WithoutTenantsEffect
  <2> QED BY <2>1, <2>2
<1> HIDE DEF f
<1> QED BY <1>1, <1>2, <1>4

LEMMA TenantsCommitSparesServers ==
    ASSUME IInv, TypeInv, TouchInv, CommitTenants,
           NEW n \in ServerName, NEW r \in Range(db.servers[n])
    PROVE  \/ r \in Range(db'.servers[n])
           \/ /\ [r EXCEPT !.tenant = NoTenant] \in Range(db'.servers[n])
              /\ r.tenant \notin DOMAIN db'.tenants
PROOF
<1> DEFINE f == TenantsPruned(work, env)
<1>1. db' = f /\ work.servers = db.servers /\ IsTables(work)
  BY DEF CommitTenants, Enter, TouchInv, TypeInv
<1>2. PICK k \in DOMAIN work.servers[n] : work.servers[n][k] = r
  BY <1>1 DEF Range
<1>3. /\ k \in DOMAIN f.servers[n]
      /\ IF r.tenant \in DOMAIN f.tenants \cup {NoTenant}
         THEN f.servers[n][k] = r
         ELSE f.servers[n][k] = [r EXCEPT !.tenant = NoTenant]
  BY <1>1, <1>2, ServersOfThePruned
<1> HIDE DEF f
<1> QED BY <1>1, <1>3 DEF Range

LEMMA ServersCommitSparesManual ==
    ASSUME IInv, TypeInv, TouchInv, CommitServers,
           NEW n \in ServerName \ Names(env), NEW r \in Range(db.servers[n]), ~r.managed
    PROVE  r \in Range(db'.servers[n])
PROOF
<1> DEFINE f == ServersPruned(work, env)
           manual == {k \in DOMAIN work.servers[n] : ~work.servers[n][k].managed}
<1>1. db' = f /\ work.servers[n] = db.servers[n]
  BY DEF CommitServers, Enter, TouchInv, SameServersElsewhere
<1>2. PICK k \in DOMAIN work.servers[n] : work.servers[n][k] = r
  BY <1>1 DEF Range
<1>3. CASE ~env.pruneServers
  BY <1>1, <1>3 DEF ServersPruned
<1>4. CASE env.pruneServers
  <2>1. f.servers[n] = Restrict(work.servers[n], manual)
    BY <1>4 DEF ServersPruned, Tables
  <2>2. k \in manual
    BY <1>2
  <2>3. /\ DOMAIN Restrict(work.servers[n], manual) = manual
        /\ \A j \in manual : Restrict(work.servers[n], manual)[j] = work.servers[n][j]
    BY RestrictValue
  <2> HIDE DEF f, manual
  <2> QED BY <1>1, <1>2, <2>1, <2>2, <2>3 DEF Range
<1> QED BY <1>3, <1>4

LEMMA ServersCommitKeepsTenants ==
    ASSUME IInv, TouchInv, CommitServers
    PROVE  db'.tenants = db.tenants /\ db'.owner = db.owner
PROOF
<1>1. /\ db' = ServersPruned(work, env) /\ DOMAIN work.servers = ServerName
      /\ work.tenants = db.tenants /\ work.owner = db.owner
  BY DEF CommitServers, Enter, TouchInv, IInv, Control
<1> QED BY <1>1, ServersPrunedEffect

\* "Manually-created rows are never touched", for any number of rows: see
\* ManualLeftAlone for what of this the code keeps.
THEOREM ManualAlwaysLeftAlone == SyncSpec => ManualLeftAlone
PROOF
<1> DEFINE KInv == IInv /\ TypeInv /\ TouchInv
           Spared(s) ==
               /\ s \in DOMAIN db'.tenants
               /\ db'.tenants[s] = db.tenants[s]
               /\ DomainsOf(db', s) = DomainsOf(db, s)
           Left(n, r) ==
               \/ r \in Range(db'.servers[n])
               \/ /\ [r EXCEPT !.tenant = NoTenant] \in Range(db'.servers[n])
                  /\ r.tenant \notin DOMAIN db'.tenants
           Step == edits' = edits =>
               /\ \A s \in DOMAIN db.tenants \ Slugs(env) : ~db.tenants[s].managed => Spared(s)
               /\ \A n \in ServerName \ Names(env) :
                     \A r \in Range(db.servers[n]) : ~r.managed => Left(n, r)
<1>1. SyncInit => KInv
  BY SyncInitially, TypeInitially DEF SyncInit, TouchInv
<1>2. KInv /\ [SyncNext]_vars => KInv'
  BY SyncStepKeeps, TypeStep, TouchStep
<1>3. ASSUME KInv, [SyncNext]_vars PROVE Step
  <2>1. CASE CommitTenants
    <3>1. ASSUME NEW s \in DOMAIN db.tenants \ Slugs(env), ~db.tenants[s].managed
          PROVE  Spared(s)
      BY <1>3, <2>1, <3>1, TenantsCommitSparesManual
    <3>2. ASSUME NEW n \in ServerName, NEW r \in Range(db.servers[n]) PROVE Left(n, r)
      BY <1>3, <2>1, TenantsCommitSparesServers
    <3> QED BY <3>1, <3>2
  <2>2. CASE CommitServers
    <3>1. db'.tenants = db.tenants /\ db'.owner = db.owner
      BY <1>3, <2>2, ServersCommitKeepsTenants
    <3>2. \A s \in DOMAIN db.tenants : Spared(s)
      BY <3>1 DEF DomainsOf
    <3>3. ASSUME NEW n \in ServerName \ Names(env), NEW r \in Range(db.servers[n]), ~r.managed
          PROVE  Left(n, r)
      BY <1>3, <2>2, <3>3, ServersCommitSparesManual
    <3> QED BY <3>2, <3>3
  <2>3. CASE AdminEdit
    BY <1>3, <2>3, EditSeen
  <2>4. CASE db' = db
    BY <2>4
  <2> QED BY <1>3, <2>1, <2>2, <2>3, <2>4, WhoCommits
<1>4. KInv /\ [SyncNext]_vars => [Step]_vars
  BY <1>3
<1> QED BY <1>1, <1>2, <1>4, PTL DEF SyncSpec, ManualLeftAlone

\* A commit of sync_tenants: the milter finds each tenant of the environment.
LEMMA TenantsCommitServes ==
    ASSUME IInv, CommitTenants,
           NEW i \in DOMAIN env.tenants, LastTenant(env, i), env.tenants[i].enabled,
           NEW x \in Range(env.tenants[i].domains)
    PROVE  MatchSender(db', x) = env.tenants[i].slug
PROOF
<1> DEFINE f == TenantsPruned(work, env)
<1>1. /\ db' = f /\ env \in Env /\ at \in Nat \ {0} /\ at \notin DOMAIN env.tenants
      /\ at <= Len(env.tenants) + 1 /\ TenantsSoFar(work, env, at, <<>>)
  BY DEF CommitTenants, Enter, IInv, Control, TenantsInv
<1>2. AllTenants(f, env)
  BY <1>1, TenantsCommitted
<1> HIDE DEF f
<1>3. TenantMatches(f, env.tenants[i])
  BY <1>2 DEF AllTenants
<1>4. x \in DomainsOf(f, env.tenants[i].slug) /\ f.tenants[env.tenants[i].slug].enabled
  BY <1>3 DEF TenantMatches
<1> QED BY <1>1, <1>4 DEF DomainsOf, MatchSender

\* And the URLs of each server whose tenant is still there.
LEMMA TenantsCommitServesUrls ==
    ASSUME IInv, TypeInv, TouchInv, CommitTenants,
           NEW i \in DOMAIN env.servers, ServerMatches(db, env.servers[i]),
           env.servers[i].tenant \in DOMAIN db'.tenants \cup {NoTenant}
    PROVE  ServerMatches(db', env.servers[i])
PROOF
<1> DEFINE f == TenantsPruned(work, env)
           p == env.servers[i]
           row == Row(TRUE, p.tenant, p.urls)
<1>1. /\ db' = f /\ work.servers = db.servers /\ IsTables(work) /\ p.name \in ServerName
  BY EnvFacts DEF CommitTenants, Enter, TouchInv, TypeInv, IInv, Control
<1>2. PICK k \in DOMAIN work.servers[p.name] :
          IsFirst(k, work.servers[p.name]) /\ work.servers[p.name][k] = row
  BY <1>1 DEF ServerMatches
<1>3. row.tenant = p.tenant
  BY DEF Row
<1> HIDE DEF f, p, row
<1>4. DOMAIN f.servers[p.name] = DOMAIN work.servers[p.name]
  BY <1>1, ServersOfThePruned DEF f
<1>5. IF row.tenant \in DOMAIN f.tenants \cup {NoTenant}
      THEN f.servers[p.name][k] = row
      ELSE f.servers[p.name][k] = [row EXCEPT !.tenant = NoTenant]
  BY <1>1, <1>2, ServersOfThePruned DEF f
<1>6. f.servers[p.name][k] = row
  BY <1>1, <1>3, <1>5 DEF p
<1>7. IsFirst(k, f.servers[p.name])
  BY <1>2, <1>4 DEF IsFirst
<1>8. ServerMatches(f, p)
  BY <1>2, <1>4, <1>6, <1>7 DEF ServerMatches, row
<1> QED BY <1>1, <1>8 DEF p

LEMMA ServersCommitServesUrls ==
    ASSUME IInv, CommitServers, NEW i \in DOMAIN env.servers, LastServer(env, i)
    PROVE  ServerMatches(db', env.servers[i])
PROOF
<1> DEFINE f == ServersPruned(work, env)
<1>1. /\ db' = f /\ env \in Env /\ at \in Nat \ {0} /\ at \notin DOMAIN env.servers
      /\ at <= Len(env.servers) + 1 /\ ServersSoFar(work, env, at)
      /\ DOMAIN work.servers = ServerName
  BY DEF CommitServers, Enter, IInv, Control, ServersInv
<1>2. AllServers(f, env)
  BY <1>1, ServersCommitted
<1> QED BY <1>1, <1>2 DEF AllServers

\* At no moment of a boot, one that fails or is killed included, does the
\* milter miss what the environment keeps.
THEOREM KeptAlwaysStaysServed == SyncSpec => KeptStaysServed
PROOF
<1> DEFINE KInv == IInv /\ TypeInv /\ TouchInv
           Found(i) ==
               \A x \in Range(env.tenants[i].domains) :
                  (MatchSender(db, x) = env.tenants[i].slug
                      => MatchSender(db', x) = env.tenants[i].slug)
           Step == edits' = edits =>
               /\ \A i \in DOMAIN env.tenants :
                     LastTenant(env, i) /\ env.tenants[i].enabled => Found(i)
               /\ \A i \in DOMAIN env.servers :
                     /\ LastServer(env, i)
                     /\ ServerMatches(db, env.servers[i])
                     /\ env.servers[i].tenant \in DOMAIN db'.tenants \cup {NoTenant}
                     => ServerMatches(db', env.servers[i])
<1>1. SyncInit => KInv
  BY SyncInitially, TypeInitially DEF SyncInit, TouchInv
<1>2. KInv /\ [SyncNext]_vars => KInv'
  BY SyncStepKeeps, TypeStep, TouchStep
<1>3. ASSUME KInv, [SyncNext]_vars PROVE Step
  <2>1. CASE CommitTenants
    BY <1>3, <2>1, TenantsCommitServes, TenantsCommitServesUrls
  <2>2. CASE CommitServers
    <3>1. db'.tenants = db.tenants /\ db'.owner = db.owner
      BY <1>3, <2>2, ServersCommitKeepsTenants
    <3>2. \A x : MatchSender(db', x) = MatchSender(db, x)
      BY <3>1 DEF MatchSender
    <3> QED BY <1>3, <2>2, <3>2, ServersCommitServesUrls
  <2>3. CASE AdminEdit
    BY <1>3, <2>3, EditSeen
  <2>4. CASE db' = db
    BY <2>4
  <2> QED BY <1>3, <2>1, <2>2, <2>3, <2>4, WhoCommits
<1>4. KInv /\ [SyncNext]_vars => [Step]_vars
  BY <1>3
<1> QED BY <1>1, <1>2, <1>4, PTL DEF SyncSpec, KeptStaysServed

-----------------------------------------------------------------------------
(* Why a boot fails.                                                         *)

\* Of a list without repetition the head is not in the tail.
LEMMA HeadLeaves ==
    ASSUME NEW S, NEW q \in Seq(S), q # <<>>, IsInjective(q)
    PROVE  IsInjective(Tail(q)) /\ Head(q) \notin Range(Tail(q))
PROOF
<1>1. /\ Len(q) \in Nat \ {0} /\ DOMAIN q = 1..Len(q) /\ Head(q) = q[1]
      /\ DOMAIN Tail(q) = 1..(Len(q) - 1)
      /\ \A j \in 1..(Len(q) - 1) : Tail(q)[j] = q[j + 1]
  OBVIOUS
<1>2. \A i, j \in DOMAIN q : q[i] = q[j] => i = j
  BY DEF IsInjective
<1>3. \A i \in 1..(Len(q) - 1) : i + 1 \in DOMAIN q /\ 1 \in DOMAIN q /\ i + 1 # 1
  BY <1>1
<1>4. Head(q) \notin Range(Tail(q))
  BY <1>1, <1>2, <1>3 DEF Range
<1>5. \A i, j \in DOMAIN Tail(q) : Tail(q)[i] = Tail(q)[j] => i = j
  <2> TAKE i \in DOMAIN Tail(q), j \in DOMAIN Tail(q)
  <2> HAVE Tail(q)[i] = Tail(q)[j]
  <2>1. q[i + 1] = q[j + 1] /\ i \in Int /\ j \in Int
    BY <1>1
  <2>2. i + 1 = j + 1
    BY <1>1, <1>2, <1>3, <2>1
  <2> QED BY <2>1, <2>2
<1> QED BY <1>4, <1>5 DEF IsInjective

LEMMA UpsertTenantOrigin == ASSUME IInv, OriginInv, UpsertTenant PROVE OriginInv'
PROOF
<1> DEFINE p == env.tenants[at]
           kept == {x \in DOMAIN work.owner : work.owner[x] # p.slug}
<1>1. /\ phase = "tenants" /\ todo = <<>> /\ at \in DOMAIN env.tenants
      /\ work' = WithTenant(work, p) /\ db' = db
      /\ todo' = p.domains /\ at' = at + 1 /\ UNCHANGED <<env, phase>>
  BY DEF UpsertTenant, Write, Isolated
<1>2. /\ at \in Nat \ {0} /\ (at + 1) - 1 = at
      /\ \A j \in DOMAIN env.tenants : j \in Nat
  BY EnvFacts DEF IInv, Control
<1>3. work'.owner = Restrict(work.owner, kept)
  BY <1>1 DEF WithTenant, Tables, DomainsGone
<1>4. DOMAIN work'.owner = kept /\ \A x \in kept : work'.owner[x] = work.owner[x]
  BY <1>3, RestrictValue
<1>5. ASSUME NEW x \in kept PROVE Untouched(x)' \/ Given(x)'
  <2>1. CASE Untouched(x)
    <3>1. \A j \in DOMAIN env.tenants : j < at + 1 => j < at \/ j = at
      BY <1>2
    <3>2. env.tenants[at].slug # db.owner[x]
      BY <2>1 DEF Untouched
    <3> QED BY <1>1, <1>4, <2>1, <3>1, <3>2 DEF Untouched
  <2>2. CASE Given(x)
    <3>1. PICK j \in DOMAIN env.tenants : j < at /\ x \in Range(env.tenants[j].domains)
      BY <2>2 DEF Given
    <3>2. j < at + 1 /\ j # (at + 1) - 1
      BY <1>2, <3>1
    <3> QED BY <1>1, <3>1, <3>2 DEF Given
  <2>3. Untouched(x) \/ Given(x)
    BY <1>1 DEF OriginInv
  <2> QED BY <2>1, <2>2, <2>3
<1> QED BY <1>1, <1>2, <1>4, <1>5 DEF OriginInv

LEMMA CreateDomainOrigin == ASSUME IInv, OriginInv, CreateDomain PROVE OriginInv'
PROOF
<1> DEFINE slug == env.tenants[at - 1].slug
           domains == env.tenants[at - 1].domains
           new == Head(todo)
<1>1. /\ phase = "tenants" /\ todo # <<>> /\ new \notin DOMAIN work.owner
      /\ work' = WithDomain(work, slug, new) /\ db' = db
      /\ todo' = Tail(todo) /\ at' = at /\ UNCHANGED <<env, phase>>
  BY DEF CreateDomain, Write, Isolated
<1>2. /\ at \in Nat \ {0} /\ at - 1 \in DOMAIN env.tenants /\ at - 1 < at
      /\ todo \in Seq(Domain)
  BY <1>1 DEF IInv, Control
<1>3. /\ DOMAIN work'.owner = DOMAIN work.owner \cup {new}
      /\ \A x \in DOMAIN work.owner : work'.owner[x] = work.owner[x]
  BY <1>1 DEF WithDomain, Tables, Put
<1>4. /\ Range(todo) \subseteq Range(domains)
      /\ IsInjective(domains) => IsInjective(todo)
  BY <1>1 DEF OriginInv
<1>5. Range(todo) = {new} \cup Range(Tail(todo))
  BY <1>1, <1>2, RangeOfTail
<1>6. IsInjective(domains) => IsInjective(Tail(todo)) /\ new \notin Range(Tail(todo))
  BY <1>1, <1>2, <1>4, HeadLeaves
<1>7. ASSUME NEW x, x = new PROVE Given(x)'
  <2>1. x \in Range(domains)
    BY <1>4, <1>5, <1>7
  <2>2. IsInjective(domains) => x \notin Range(Tail(todo))
    BY <1>6, <1>7
  <2> QED BY <1>1, <1>2, <2>1, <2>2 DEF Given
<1>8. ASSUME NEW x \in DOMAIN work.owner PROVE Untouched(x)' \/ Given(x)'
  <2>1. CASE Untouched(x)
    BY <1>1, <1>3, <2>1 DEF Untouched
  <2>2. CASE Given(x)
    BY <1>1, <1>5, <2>2 DEF Given
  <2>3. Untouched(x) \/ Given(x)
    BY <1>1 DEF OriginInv
  <2> QED BY <2>1, <2>2, <2>3
<1>9. Range(Tail(todo)) \subseteq Range(domains)
  BY <1>4, <1>5
<1>10. ASSUME NEW x \in DOMAIN work'.owner PROVE Untouched(x)' \/ Given(x)'
  <2>1. CASE x = new
    BY <1>7, <2>1
  <2>2. CASE x # new
    <3>1. x \in DOMAIN work.owner
      BY <1>3, <2>2
    <3> QED BY <1>8, <3>1
  <2> QED BY <2>1, <2>2
<1> QED BY <1>1, <1>6, <1>9, <1>10 DEF OriginInv

LEMMA OriginStep == ASSUME IInv, OriginInv, [SyncNext]_vars PROVE OriginInv'
PROOF
<1>1. CASE Boot
  <2>1. db' = db /\ work' = db /\ at' = 1 /\ todo' = <<>> /\ env' = env
    BY <1>1 DEF Boot, Enter
  <2>2. \A j \in DOMAIN env.tenants : ~(j < 1)
    BY EnvFacts DEF IInv, Control
  <2> QED BY <2>1, <2>2 DEF OriginInv, Untouched
<1>2. CASE UpsertTenant
  BY <1>2, UpsertTenantOrigin
<1>3. CASE CreateDomain
  BY <1>3, CreateDomainOrigin
<1>4. CASE phase' # "tenants"
  BY <1>4 DEF OriginInv
<1>5. CASE CommitTenants \/ UpsertServer \/ CommitServers \/ Crash \/ Configure
  BY <1>4, <1>5 DEF CommitTenants, UpsertServer, CommitServers, Crash, Configure, Enter,
     AfterTenants, Write
<1>6. CASE DomainTaken \/ PayloadInvalid \/ TenantUnknown
  BY <1>4, <1>6 DEF DomainTaken, PayloadInvalid, TenantUnknown, Fail, Enter
<1>7. CASE AdminEdit
  <2>1. PICK rows : Edit(rows)
    BY <1>7, FormSaved
  <2> QED BY <1>4, <2>1 DEF Edit
<1>8. CASE UNCHANGED vars
  BY <1>8 DEF vars, bootVars, OriginInv, Untouched, Given
<1> QED BY <1>1, <1>2, <1>3, <1>5, <1>6, <1>7, <1>8 DEF SyncNext, SyncStep

\* sync_tenants raises: two handles claim the domain, one claims it twice, a
\* tenant that is not listed has it, or one that is listed later.
LEMMA TakenForCause ==
    ASSUME IInv, OriginInv, DomainTaken
    PROVE  ~WellFormed(env) \/ ~NoForeignDomain(env, db) \/ ~NoMoveForward(env, db)
PROOF
<1> SUFFICES ASSUME WellFormed(env), NoForeignDomain(env, db), NoMoveForward(env, db)
             PROVE  FALSE
  OBVIOUS
<1> DEFINE x == Head(todo)
<1>1. phase = "tenants" /\ todo # <<>> /\ x \in DOMAIN work.owner
  BY DEF DomainTaken
<1>2. /\ at \in Nat \ {0} /\ at - 1 \in DOMAIN env.tenants /\ todo \in Seq(Domain)
      /\ env \in Env
  BY <1>1 DEF IInv, Control
<1>3. x \in Range(todo) /\ x \in Range(env.tenants[at - 1].domains)
  BY <1>1, <1>2, RangeOfTail DEF OriginInv
<1> HIDE DEF x
<1>4. CASE Untouched(x)
  <2>0. x \in DOMAIN db.owner /\ db.owner[x] \in Slugs(env)
    BY <1>2, <1>3, <1>4 DEF NoForeignDomain, Untouched, Range
  <2>1. PICK j \in 1..(at - 1) : env.tenants[j].slug = db.owner[x]
    BY <1>2, <1>3, <2>0 DEF NoMoveForward
  <2>2. j \in DOMAIN env.tenants /\ j < at
    <3>1. DOMAIN env.tenants = 1..Len(env.tenants) /\ Len(env.tenants) \in Nat
      BY <1>2, EnvFacts
    <3> QED BY <1>2, <2>1, <3>1
  <2> QED BY <1>4, <2>1, <2>2 DEF Untouched
<1>5. CASE Given(x)
  <2>1. PICK j \in DOMAIN env.tenants :
            /\ x \in Range(env.tenants[j].domains)
            /\ j = at - 1 /\ IsInjective(env.tenants[j].domains) => x \notin Range(todo)
    BY <1>5 DEF Given
  <2>2. j = at - 1
    BY <1>2, <1>3, <2>1 DEF WellFormed
  <2> QED BY <1>3, <2>1, <2>2 DEF WellFormed
<1> QED BY <1>1, <1>4, <1>5 DEF OriginInv

\* sync_directory_servers raises: its variables are at fault.
LEMMA RaisedForCause ==
    ASSUME IInv, PayloadInvalid \/ TenantUnknown
    PROVE  ~WellFormed(env)
PROOF
<1>1. CASE PayloadInvalid
  BY <1>1 DEF PayloadInvalid, PayloadsValid, WellFormed
<1>2. CASE TenantUnknown
  <2> DEFINE p == env.servers[at]
  <2>1. p \in Range(env.servers) /\ p.tenant \notin DOMAIN work.tenants \cup {NoTenant}
    BY <1>2 DEF TenantUnknown, Range
  <2>2. env \in Env /\ AllTenants(work, env)
    BY <1>2 DEF TenantUnknown, IInv, Control, ServersInv
  <2>3. ASSUME p.tenant \in Slugs(env) PROVE FALSE
    <3>1. PICK i \in DOMAIN env.tenants :
              env.tenants[i].slug = p.tenant /\ LastTenant(env, i)
      BY <2>2, <2>3, LastTenantExists
    <3> QED BY <2>1, <2>2, <3>1 DEF AllTenants, TenantMatches
  <2> QED BY <2>1, <2>3 DEF WellFormed
<1> QED BY <1>1, <1>2

\* A boot fails only over an environment that contradicts itself, claims a
\* domain of a tenant it does not list, one about to be pruned included, or
\* moves a domain to a tenant listed earlier; for any number of handles,
\* domains, edits and crashes.
THEOREM AlwaysFailsForCause == SyncSpec => []FailsForCause
PROOF
<1> DEFINE LInv == IInv /\ OriginInv /\ FailsForCause
<1>1. SyncInit => LInv
  BY SyncInitially DEF SyncInit, OriginInv, FailsForCause
<1>2. ASSUME LInv, [SyncNext]_vars PROVE FailsForCause'
  <2>1. CASE DomainTaken
    BY <1>2, <2>1, TakenForCause DEF DomainTaken, Fail, Enter, FailsForCause
  <2>2. CASE PayloadInvalid \/ TenantUnknown
    BY <1>2, <2>2, RaisedForCause DEF PayloadInvalid, TenantUnknown, Fail, Enter, FailsForCause
  <2>3. CASE phase' # "failed"
    BY <2>3 DEF FailsForCause
  <2>4. CASE UNCHANGED vars
    BY <1>2, <2>4 DEF vars, bootVars, FailsForCause
  <2>5. CASE UpsertTenant \/ CreateDomain \/ UpsertServer
    BY <2>3, <2>5 DEF UpsertTenant, CreateDomain, UpsertServer, Write
  <2>6. CASE Boot \/ CommitTenants \/ CommitServers \/ Crash \/ Configure
    BY <2>3, <2>6 DEF Boot, CommitTenants, CommitServers, Crash, Configure, Enter, AfterTenants
  <2>7. CASE AdminEdit
    <3>1. PICK rows : Edit(rows)
      BY <2>7, FormSaved
    <3> QED BY <2>3, <3>1 DEF Edit
  <2> QED BY <1>2, <2>1, <2>2, <2>4, <2>5, <2>6, <2>7 DEF SyncNext, SyncStep
<1>3. LInv /\ [SyncNext]_vars => LInv'
  BY <1>2, SyncStepKeeps, OriginStep
<1>4. LInv => FailsForCause
  OBVIOUS
<1> QED BY <1>1, <1>3, <1>4, PTL DEF SyncSpec
=============================================================================

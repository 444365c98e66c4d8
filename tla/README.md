# A TLA+ model of disclaimrNG

disclaimrNG is a milter: a mail server (MTA) hands it every outgoing mail over
the milter protocol, and it decides from tables that administrators edit which
signatures the mail gets. This directory holds a model of it in TLA+, the TLC
configurations that check the model on small instances, and proofs of its main
properties that TLAPS checks for every value of the constants. Line numbers are
those of the sources under `src/`.

## 1. The system

| Part | State | Operations | Talks to |
|---|---|---|---|
| **Milter daemon** (`disclaimr.py` 32-80, 305-393; `configuration_helper.py`) | module variables of the accepting parent: prefilter, when it was built, when the log was pruned | refresh at start and before a fork, prune, fork, stop | database; hands its prefilter to each child |
| **Milter connection** (`disclaimr.py` 118-302) | one `DisclaimrMilter` per child process: its note for the log, its helper | one callback per milter command, `abort`, `close` | MTA (commands in, answer out), database (log entry) |
| **Rule matching** (`milter_helper.py` 274-548, `models.py`) | requirements in play, rows of the mail, matched recipients, collected headers and body, applied signatures | `reset`, `connect`, `mail_from`, `rcpt`, `header`, `eoh`, `body`, `eob` | database (requirement rows at MAIL FROM, rules and actions at the end of the body) |
| **Directory lookup** (`milter_helper.py` 584-891, `query_cache.py`) | query cache of the process, memo per mail and action | conditions, sender resolution, URL failover | LDAP servers, tenants table |
| **Signature application** (`milter_helper.py` 509-582, 893-1183) | the MIME tree being signed, pending images | `do_action` per action, header workflow | template rendering, images |
| **Template rendering** (`milter_helper.py` 96-266) | image replacements per template and mail | tags, resolver wrappers, image fragments | image rows |
| **CA files** (`ldap_helper.py`) | one file per certificate, shared by the processes of a container | write aside, replace, open | file system, libldap |
| **Tenants and environment sync** (`models.py` 54-149, `sync_tenants.py`, `sync_directory_servers.py`, `docker/entrypoint.sh`) | tenant, domain, server and URL rows | upsert, prune, dry run | environment at boot, milter (reads the rows) |
| **Roles, SSO and the admin account** (`roles.py`, `sso.py`, `bootstrap_admin.py`, `sync_roles.py`) | groups, mappings, users | ensure groups, bootstrap, sync a user at login | identity provider |
| **Quick upload** (`views/signature_image.py`) | image rows | look for a free slug, create | database |
| **Rest of the admin** (`admin.py`, `views/`, `dashboard.py`) | none of its own | forms, preview, signature test | database |

They interact through the database and through `fork()`: administrators write
rows whenever they like, the parent reads them into the prefilter at most every
`CONFIG_TTL` seconds, a child keeps the prefilter of its fork, and the helper
reads requirement rows at one callback of a mail and rule rows at another.

What is hard here, and hard to test, is the time between these reads; state
that must not survive from one mail of a connection to the next; failures of
the database or a directory between two steps; connections that are dropped
before the answer; the order in which requirements are dropped. `PROJECT.json`
lists each such place with the property that watches it.

What makes each part correct:

- *Rule matching*: deciding callback by callback gives the decision that the
  whole mail and one consistent set of rows give. Rules sign in order, and the
  loop stops where it should.
- *Connection*: nothing of one mail reaches another; the log tells what the MTA
  was told; no database connection is held between mails.
- *Daemon*: a fork gets a prefilter at most `CONFIG_TTL` old, failures keep the
  last good one, a child never shares its parent's database connection, the
  retention of the log is applied without pruning at every connection.
- *Directory lookup*: an answer is no older than the cache may make it, an
  unreachable server refuses a condition, a reachable one is found.
- *Signature application*: no part of a mail vanishes; what counts as applied
  changed the mail; headers end up where they were.
- *Template rendering*: an action that must not be used with an empty tag is
  not; all parts of a mail show the same signature.
- *CA files*: whoever opens one opens a whole one, its own.
- *Environment sync*: the rows match the environment after a sync, or nothing
  has changed; what others made is left alone; the milter, which reads on while
  the web container boots, misses nothing that stays.
- *Roles and SSO*: a user ends up with what the claims grant, and only that;
  what two statements make is not found half made without a cause.
- *Quick upload*: no upload takes the place of another image.

## 2. Modules

| Module | Models | Extends |
|---|---|---|
| `RuleMatching` | mails, requirement and rule rows, and when a rule applies (the reference definition `Eligible`) | |
| `SigningPolicy` | the abstract promise: receive a mail, decide once, sign with eligible rules only | `RuleMatching` |
| `MailPipeline` | `DisclaimrMilter` and `MilterHelper` over several mails | `RuleMatching`; `INSTANCE SigningPolicy` |
| `MilterDaemon` | the parent process and its children | |
| `DirectoryLookup` | directory conditions, sender resolution, query cache | |
| `MimeActions` | the loop over actions, `_apply_action` part by part, templates, images, header workflow | |
| `EnvSync` | the boot of the web container: `sync_tenants`, then `sync_directory_servers` | |
| `AccessControl` | roles, the admin account, sign-ins through the identity provider | |
| `CaFile` | `_ca_file()` in several processes | |
| `QuickUpload` | the quick upload in several workers | |
| `MailPipelineProofs` | types, the decision, the refinement | `MailPipeline`, `TLAPS` |
| `MailOutcomeProofs` | log, answers and connection; the order of signatures | `MailPipelineProofs` |
| `MilterDaemonProofs`, `DirectoryLookupProofs`, `MimeActionsProofs`, `EnvSyncProofs`, `AccessControlProofs` | theorems | the component, `TLAPS` |
| `FileProofs` | theorems about both kinds of file | `CaFile`, `QuickUpload`, `TLAPS` |
| `MCMailPipeline`, `MCDirectoryLookup`, `MCMimeActions` | instances for TLC (`MilterDaemon` needs none but its .cfg files) | the component, `TLC` |
| `MCWebContainer` | `EnvSync`, `AccessControl`, `CaFile` and `QuickUpload` in one instance | these, `TLC` |

### MailPipeline

One action per callback: `Accept` (`__init__` and the fork), `Connect`,
`MailFrom`, `Rcpt`, `Header`, `Eoh`, `Body`. The end of the body is one callback
in the code but a loop that can fail anywhere, so it is `Eob` (the decision),
`NextRule`, `DoAction`, `LogMail` (log entry and `close_all`) and `Reply` (the
MTA takes the answer). `Abort`, `HandlerFails` (a callback raises, the
connection is dropped) and `Close` may come wherever the protocol or the code
lets them; `EditRequirement` and `EditRule` may come between any two steps.

The variables are the helper's attributes under their names (`requirements`,
`enabled`, `rcptMatched` for `_rcpt_matched`, `loaded` and `rows` for
`_requirement_rows`, `applied`, ...). `mail`, `policy`, `chain` and `delivered`
are history: what the MTA really sent, the rows as they were at MAIL FROM, the
rule rows the loop started with, the answers taken. Only properties read them.

Abstractions: an expression is the set of texts it accepts, over the joined
header lines or body chunks, so a requirement on a header sees all lines at
once as in the code. A deleted requirement is a disabled one, since all readers
filter on `enabled`. Which conditions the directory refuses is chosen freely
among the requirements that have conditions; whether an action changes the mail
is chosen freely. Whether `Accept` finds the prefilter due is chosen freely too:
that is the part `MilterDaemon` models with time.

The abstract `SigningPolicy` knows no requirements in play, no matched
recipients and no `enabled`: it says that a mail is judged once, whole, by the
rows of its MAIL FROM, that only eligible rules sign, and that a mail that ends
early leaves nothing. `ImplementsPromise` maps `eob` to "decided" and `answer`
to "answered".

### MilterDaemon

`Start` or `Accept` begins `refresh_configuration`, which is `Build` or
`BuildFails`, `Prune`, `EndRefresh` (its `finally` clause) or `FailToStart` (the
same clause at start, where the exception goes on). `Fork` copies the parent:
the prefilter and whether it holds an open database connection. `Tick` and
`Edit` come between any two of them, `Stop` ends the parent and leaves its
children running. `ChildMail`, `ChildLog` and `ChildExit` stand for what
`MailPipeline` models in detail.

One clock stands for both clocks of the code: `time.monotonic()` for TTL and
pruning interval and wall-clock time for the log. A step of the wall clock
(NTP) is not modelled.

### DirectoryLookup

A mail goes through two kinds of lookups: one for the directory conditions of
its requirements (`_failed_directory_conditions`), and one per action that
resolves the sender (`_lookup_sender`). Both walk over servers and their URLs,
so they share the actions `NextServer`, `UrlFails`, `UrlRaises` and
`UrlsExhausted`; what they make of a cached or fresh answer differs and has
actions of its own: `SenderFromCache`, `SenderAnswered`, `SenderUnknown`, then
`AskGroup`, `GroupAnswered`, `Verdict`; and `BeginAction`, `ResolveFromMemo`,
`BeginResolve`, `ResolveFromCache`, `ResolveRefused`, `ResolveAnswered`,
`ResolveDone`. Between any two of them time passes (`Tick`), an administrator
saves a server (`EditServer`), URLs and entries change (`UrlChanges`,
`DirectoryChanges`).

`cache` and `timeout` are `QueryCache`, `memo` is `_resolver_cache`,
`found`, `members` and `failed` are the locals of the condition lookup, and
`rows` are the server rows as the query at the start of the lookup read them
(`prefetched` for servers linked to an action, which are read with the rules).
`ever`, `steady`, `taken` and `used` are history.

Abstractions: a query is the address it is made for, since `search_query` is
the same for all of a server; a pattern is the set of values it matches; a
search result keeps what the code branches on, entries and how many referrals
stand beside them. Django returns servers in no set order, so any order is
modelled. A search that fails in any way is a URL that is down.
`MailPipeline` chooses freely what the directory refuses; this module says
what it may refuse.

### MimeActions

A mail is a function from paths to nodes: the root at `<<>>`, the i-th child of
`p` at `Append(p, i)`, so that wrapping, embedding and forwarding are changes
of paths. `BeginAction` is `do_action` up to its copy, one step per part is
`_apply_action` on a leaf (`PassPart`, `SkipPart`, `SignPart`, `Raise`), and
`EndAction` is the attaching of the queued images. `Send` computes the
workflow. `EditImage` may come between any two of them: the memo of
`_image_replacements` is there for that. `MailPipeline!DoAction` is this
module's `BeginAction` to `EndAction`; that it may or may not sign is what is
chosen freely there.

A signature in a text is a record: the step, the type of the part, the
template, the tags it could not fill and the Content-IDs it shows. A header is
a sequence of values, since Python's mapping gives the first and a mail may have
several. A template is a sequence of stretches, with or without `{rt}` around
them. Whether REPLACETAG finds its tag is chosen freely, and so is what the
directory delivers, once for an action: `DirectoryLookup` shows that the parts
of a mail agree. Images are attached in any order (a Python set). The texts of
signatures are not empty, and a multipart without parts is not among the mails.
A REPLACETAG keeps the signatures the text has.

### The web container

`EnvSync` follows `docker/entrypoint.sh`: `Boot`, the statements of the two
commands (`UpsertTenant`, `CreateDomain`, `CommitTenants`, `UpsertServer`,
`CommitServers`), what can end them (`DomainTaken`, `PayloadInvalid`,
`TenantUnknown`), and the container that is killed (`Crash`). `work` is what the
transaction sees, `db` what everybody else does. Administrators edit rows only
while gunicorn runs, hence in phase "up"; the operator edits `.env` between two
boots. An administrator can remove the marker of an env-managed row, and so
`SaveTenant` may. `settled` is history.

`AccessControl` has one step per statement, because nothing there runs in a
transaction; the reads of `sync_user()` that follow each other (47-53) are one
step. The roles are made one by one (`EnsureRole`, `FillRole`), the admin account by
`CreateAdmin` and `SavePassword`, from the boot or from a management command
that somebody runs by hand (`ResetRoles`, `ResetAdmin`; one at a time). Two
first sign-ins of one user may both find no account: one creates it
(`CreateAccount`), the other fails (`AccountTaken`). `lost` in a process are
the rows deleted since it started: a group that was deleted and made again has
another key, which is why `lost` is not looked up in the tables. `sure` says
that nobody touched what the sign-in reads or writes but sign-ins of the same
user with the same claims; `synced` and `halfMade` are history.

What this merges: `sociallogin.save()` inserts the user, then the social
account that a later sign-in finds him by, and is one step here, so a local
account left over from a sign-in that ended between the two, or from the loser
of two first sign-ins under another free name, is not a row of the model. An
SSO user named admin gets another name as long as the local `admin` exists
(`sso.py` 78-80), so `AccessAssumption` keeps the two apart; after an
administrator deleted the local one he could be given the name, and a later
`bootstrap_admin` would take his account over. That is outside of the model.

`CaFile` and `QuickUpload` are short: check and act in several processes.

The four share no row and no file, so a behaviour of `MCWebContainer` is one of
a single component: `part` says which one.

## 3. Runs

| Run | Instance | What it shows |
|---|---|---|
| `pipeline_one_mail` | fair; 3 requirements out of 3 rows that differ in sender, recipient, header, body, Deny and directory; 2 rules, 2 actions; up to 2 recipients, 1 header, 1 chunk | the loop's order, no body without a rule, the refinement of `SigningPolicy` (the staged decision is the one the whole mail demands), and an answer at the end |
| `pipeline_two_mails` | 2 mails, on one connection or on two, 1 edit anywhere, 2 requirements | types; nothing leaks between mails; log entries match mails and answers; no idle database connection |
| `pipeline_all_requirements` | violation | see Findings |
| `daemon_refresh` | 1 requirement, 2 edits, 1 log entry, `CONFIG_TTL` 2, hour 3, retention 1, times up to 7 | freshness at the fork, failures keep the last good prefilter, no inherited connection, retention applied, pruning at most hourly |
| `daemon_mails` | violation | see Findings |
| `directory_lookups` | fair; 2 servers of either flavour, 3 URLs up or down, 1 change, an attribute and a group condition, 1 action | met conditions rest on one entry of one directory; a reachable server that knows the sender is found; every lookup ends |
| `directory_cache` | 1 server, 2 senders, 2 mails, 2 actions with 2 parts each, timeout 1, times up to 2, 1 change | parts agree; their data is true, complete and has not outlived the cache |
| `directory_outlives`, `directory_deferred` | violation | see Findings |
| `mime_actions` | 5 mails (text, HTML, unknown charset, mixed with blank HTML and a file, related with a forwarded mail), 27 chains of up to 3 actions, 1 image in 3 files, 1 edit | no part vanishes, every text is signed once and in order, skipped actions leave nothing, Content-IDs resolve, parts look alike, headers stay, the MTA sends the signed mail |
| `web_container` | `EnvSync`: 6 environments, 2 tenants, 2 domains, 2 servers, 2 edits, 1 crash. `AccessControl`: 1 user, 2 sign-ins at a time, 2 changes (edits or commands by hand) or a change and a kill. `CaFile`: 2 workers, 2 certificates. `QuickUpload`: 3 uploads, 2 stems, 3 tries | the environment is authoritative, pruning complete, boots idempotent, manual rows left alone, kept rows served throughout, boots fail for one of three causes; overlapping sign-ins with the same claims settle; nothing half made but by a creator at work or cut short; CA files whole; no image taken over |
| `web_moved_domain` | violation; 3 environments that differ in whose domains are whose, no edit, no crash | see Findings |

Why the bounds are enough: leaks between mails need two mails and one edit.
Accept and Deny in one rule next to another rule need three requirements. First
recipient, first matching recipient and recipient matched late need two
recipients. A stop in the middle of the order needs two rules. An edit inside a
refresh whose effect shows one TTL later needs three TTLs of time; a missed
pruning needs two intervals. An answer for the wrong sender needs two senders
on one connection; failover needs a second URL and a second server; an answer
renewed past its timeout needs three lookups, here four in two mails. Wrapping
after wrapping, embedding after wrapping and a second use of one image need two
actions, an action after a wrapped envelope three. A domain that moves, a
tenant that is pruned with a server linked to it, a handle given twice and a
crash inside a later boot need two tenants and two boots, and the environments
are chosen for these. Two sign-ins of one user interleave in all ways, with
the same claims or other ones; two
changes allow a group to be deleted and created again. Three uploads of one
stem exhaust three tries. Symmetry is used in `pipeline_two_mails`, on
requirements, and in `web_container`, on the sign-ins at a time.

Deadlock is checked except where a behaviour really ends: with the answer for
one mail (`mime_actions`), after the last edit and the last answer of bounded
instances (`web_container`, `web_moved_domain`).

*Fairness.* `FairSpec` assumes weak fairness of `NextRule`, `DoAction` and
`LogMail` only: from the end of the body to the answer the child runs one
callback and waits for nobody but directories, whose calls are bounded by
timeouts (`ldap_helper.py` 55). The MTA and the administrators are not assumed
to do anything. `FairSpec` of `DirectoryLookup` assumes the same of the steps of
a lookup (`Lookup`), and nothing of the environment.

Every property has a mutant: a variant of one mapped definition, in the module
next to it, with a bug this code could have had. TLC finds the property
violated with it.

## 4. Findings

- **One requirement is enough** (`pipeline_all_requirements`): `models.py` 155
  and `docs/en/signatures.md` 8 say that all requirements of a rule must be
  met; the code applies a rule as soon as one Accept requirement matches, as
  `docs/en/signatures.md` 130-131 says, so the docs disagree among themselves.
- **A connection outlives the prefilter** (`daemon_mails`): `disclaimr.py`
  32-33 and `.env.example` 73 say that `CONFIG_TTL` bounds how long new
  requirements are missed. It bounds this for new connections; the prefilter is
  consulted once, in `connect()`, so every mail on a connection that stays open
  is judged by the prefilter of its fork.
- **A cached value need not expire** (`directory_outlives`): a condition that
  hits the cache writes the answer back with a new time stamp
  (`milter_helper.py` 661); `models.py` 573 calls the timeout "how long (in
  seconds) a query is cached".
- **A referral alone defers the mail** (`directory_deferred`): its list of URLs
  is read as the attributes of an entry (665); `docs/en/signatures.md` 148-150
  says that an unknown sender does not defer the mail.
- **A domain that moves stops the container** (`web_moved_domain`):
  `TENANT_SYNC_PRUNE=1` is there "to delete env-managed tenants that no longer
  appear in `TENANTS`" (`docs/en/tenants.md` 70-71), and a sync is to "replace
  domain set so the env stays authoritative" (`sync_tenants.py` 128). But domains
  are replaced tenant by tenant, and `handle()` prunes after all upserts
  (103-107). If a listed tenant takes over a domain of one that was dropped,
  the domain is still owned when it is created; `IntegrityError` ends the
  command, the rollback keeps the dropped tenant, and the container is restarted
  into the same error for ever: no boot gets as far as the prune. The run shows
  this. A domain that moves between two listed tenants, to the one listed
  first, fails in the same way (the third environment of the run).

`FailsForCause` tells the causes apart: a boot fails only if the environment
contradicts itself (`WellFormed`), or claims a domain of a tenant it does not
list, one to be pruned included (`NoForeignDomain`), or moves a domain forward in
its own list (`NoMoveForward`). Taking a domain from an unlisted tenant that
stays is an error of the environment; all else is the finding
(`WellFormedBoots`).

More behaviours are in the model, and the properties are worded around them:

- An entry that comes with a referral is not found, since referrals count as
  results (658), although `ldap_helper.py` 78 expects them from an Active
  Directory searched at its root. `ReachableSenderFound` speaks of answers
  without referrals (`KnowsOne`).
- With `resolve_sender_fail` the first server that does not know the sender ends
  the lookup with "not resolved" (801), even after another one delivered, while
  the docstring (749) says that one is enough. `ReachableSenderFound` leaves
  such actions out.
- The cache does not tell one entry from several (786): a cached ambiguous
  answer counts as resolved for an action that a fresh one would stop.
  `SignatureDataTrue` demands data only where an answer has one entry.
- A mail of several parts never returns `None` from `_apply_action`: an action
  skipped in every part counts as applied and is logged, and the images it
  queued are attached, other than the docstrings say (`milter_helper.py`
  896-897, 972-975). `SkippedLeavesNothing` speaks of actions that do not count
  as applied.
- `only_mime`, which the admin offers as "Only carry out the action in the
  given mime type" (`models.py` 801), is never read when signing; no action
  of the model has it.
- ADDPART wraps an embedded image like any other leaf.
- A tenant made by hand that has the slug of a handle is overwritten and marked
  as env-managed; an empty `TENANTS` prunes nothing. `ManualLeftAlone` and
  `PruneComplete` say so.
- A group granted by a mapping that was deleted later stays with its users:
  without its mapping it counts as assigned by hand, which is what the docstring
  says (`sso.py` 43-44). No property watches it; `SignInSettles` counts such a
  group among those that are kept.
- Sign-ins of a user that overlap and go by different claims (the provider
  changed them in between) leave a mix of both: each removes what it read as
  superfluous, and the last `save()` decides about the superuser. The next
  sign-in alone mends it. `SignInSettles` speaks of sign-ins with equal claims.
- **What was half made stays so**: a container killed between
  `get_or_create()` and `permissions.set()` of a role (`roles.py` 56-58), or
  between `update_or_create()` and `save()` of the admin's password
  (`bootstrap_admin.py` 55-60), finds the row at its next boot and passes over
  it. It comes up with a role that may nothing, or an admin nobody can log in
  as, although three groups and a password are promised from the first start
  (`docs/en/configuration.md` 42, `README.md` 34); `sync_roles --reset` and
  `bootstrap_admin --reset` repair it. `MadeInFull` names such an end as the
  only cause besides a creator at work, so it is not violated by it; what it
  shows is that boots, sign-ins and commands that race for the rows, and edits
  that delete them meanwhile, add no other cause.
- The suffix of a quick upload is not counted in the length of the slug, so a
  second upload of a long name fails with an error of the database
  (`QuickUpload!CreateFails`).

## 5. Proofs

Assumed is only what the modules declare: bounds and times are natural numbers
(`BoundAssumption`, `TimeAssumption`), the rows the tables may hold have the
types of the models (`ReqRowAssumption`, `RuleRowAssumption`), `None` is no
address (`NothingAssumption`), directory rows refer to what exists and users are not
groups (`DirectoryAssumption`, `AccessAssumption`), a quick upload tries at least
two names (`UploadAssumption`), environments and mails are built as the parsers
build them (`EnvAssumption`, `MimeAssumption`). No bound of the runs is used.

`MailPipelineProofs`

- `TypeCorrect`: `TypeOK` alone is not inductive, since a log entry is complete
  only because the note knows a sender from MAIL FROM on and one of the two
  memories a recipient from the first RCPT TO on. `Addressed` says so, and
  `TypeInv` is the two together.
- `DecisionCorrect`: the strengthening says what each stage has established.
  After MAIL FROM the rows are those of `policy` that are enabled; the
  requirements in play are those whose sender, and later recipient and headers,
  accept the mail; `rcptMatched` is what some recipient so far matched; and
  `enabled` is false only when nothing in play is left. At the end of the body
  this is `Eligible`.
- `PromiseKept`: initial states map to initial states, and each action to a step
  of `SigningPolicy` or a stutter; it rests on `DecisionCorrect` for `Eob`.

`MilterDaemonProofs`: `Connections` (the parent is connected only inside a
refresh), `Past` (times are not in the future), `Prefilter` (what the prefilter
knows of each edit, by phase) and `Pruning` (how old an entry can be, by phase)
are inductive together with `TypeOK`. From them: `ConnectionsCorrect`,
`FreshCorrect`, `LastGoodCorrect`, `RetentionCorrect`, `PruneIntervalCorrect`.

`DirectoryLookupProofs`

- `PartsAgree` is not inductive, since it does not say that an action looked up
  anew was given nothing before. `Memoised` does: what was given is in the memo,
  which has one outcome per action and none for the one being looked up.
- `SignatureDataAlwaysFresh`, `VerdictsAlwaysGrounded` and
  `SignatureDataAlwaysTrue` rest on `CacheTrue`: each cached answer was once the
  directory's answer about its address, narrowed to the attributes of its key,
  and only an entry that conditions share is renewed when it is read. `Grounded`
  carries the one answer of the one server along while the sender and then his
  groups are looked up, `DataTrue` the origin of each attribute an action
  collects.
- `ReachableSenderAlwaysFound`: `Asked` says that a server which could answer is
  still to be asked, is being asked and has a good URL left, or has already
  answered with several entries. It needs that steady servers and URLs are as
  the lookup read them (`AsBegun`), hence that no name is both a server and a
  URL (`DirectoryAssumption`).

`MailOutcomeProofs`: what is logged depends on all callbacks of a mail, so the
invariant `LogInv` follows them.

- `Named`: the helper remembers the first recipient that a requirement in play
  wants, else the first. It needs the decision invariant (who is in play, who
  has matched) and that a requirement that has matched is in play. `NamesAt`
  carries the position along, so that no least element has to be found.
- `Once`: no entry and no answer has the number of a mail before its end, and
  numbers only grow.
- `Agreeing` and `Replacing`: entry and answer are made of the same signatures,
  and signatures imply a rule, hence a new body.
- `Released`: the connection is closed before the answer goes out, not after.

From it follow `LogAlwaysDescribesMail`, `LogAlwaysTellsDelivery`,
`AlwaysUntouchedUnlessRuleApplies` and `IdleAlwaysReleased`.

`ChainAlwaysDisciplined` (in the same module) speaks of signatures that are on the
mail, while the loop moves rows. `ChainInv` connects them: no rule that is left,
and none that ends the loop, belongs before one that was reached (`InTurn`);
the actions in progress are those of one rule (`InProgress`) and belong behind
the signatures (`Behind`); as long as rules are left, those that end the loop
are among them (`Ahead`).

`MimeActionsProofs`: everything a run checks of `MimeActions`, for any mail,
chain and table of images.

- Actions work on a copy that replaces the mail later, so `Kept` says of both
  that the root has the headers of the sender with their first values; it is
  kept by rewriting, wrapping and embedding. `OwnHeadersAlwaysStay` is a part
  of it, and `MtaAlwaysSendsSignedMail` adds what the workflow computes from two
  such roots.
- The properties of the parts speak of the mail, between two actions. `PInv`
  says the same of the copy while an action is at work on it (`Good`), and
  connects the two (`OfWork`): what is left are leaves without a signature of
  this action, everything else that must be signed is signed, a signature of
  this action is the one it would make now (`Fresh`), and its images are in the
  copy or queued. TLC checked `PInv` as an invariant first.
- What `WithPart`, `Rewritten`, `Enveloped` and `Attached` do to a mail is in
  each case a move (`Moved`): an injection of the old paths into the new ones
  that keeps the order of the mail, what each part is and the signatures it
  has, with at most one more. That a mail stays a tree is shown for each of
  them (`WithPartTree`, `EnvelopedTree`, `ExtendedTree`; `ChildrenCounted` is
  why the place behind the last child is free), everything else once, for
  `Moved` (`GoodMoved`).
- `PartsAlwaysLookAlike` and `ContentIdsAlwaysResolve` need that the memo of an
  action never loses an entry (`Extends`): an image that is edited between two
  parts changes what the action would find now, not what it has found.
- From `PInv`: `MimeTypesAlwaysOK`, `NoPartEverVanishes`,
  `EveryTextAlwaysSigned`, `SkippedAlwaysLeavesNothing`,
  `ContentIdsAlwaysResolve`, `PartsAlwaysLookAlike`.
- Assumed of the mail (`IsMail`): it is a finite tree, a part has parts exactly
  if its type says so, and a header that is there has a value. The sender may
  have used a Content-ID twice, hence `ContentIdsResolve` speaks of the images
  that an action has attached. Assumed of the images: the table is finite.

`EnvSyncProofs`: everything a run checks of `EnvSync`.

- `EnvAuthoritative` holds of the committed rows, which become those of the
  transaction at its end, so `IInv` says of each command what it has done up to
  its handle (`TenantsSoFar`, `ServersSoFar`), that the domains of a tenant are
  those created so far, and that what a settled boot left is found by the next
  one. `EnvAuthoritativeAlways` and `PruneCompleteAlways` follow.
- `SyncTypesAlwaysOK`: rows are functions of their keys and every foreign key
  resolves (`IsTables`), through each upsert, prune and form.
- `SyncAlwaysIdempotent`, `ManualAlwaysLeftAlone` and `KeptAlwaysStaysServed` are
  action properties: only a commit changes rows, and `TouchInv` says what its
  transaction cannot have touched. A commit of a settled environment writes the
  rows there were, because the last handle of each slug (`LastTenantExists`)
  describes the tenant before and after, and of the servers of one name only the
  first was written.
- `AlwaysFailsForCause`: `OriginInv` says that a domain the transaction sees is
  either as committed, of a tenant not yet seen to, or was created by a handle.
  If `create()` meets it, two handles claim it, or its owner is not listed (one
  that would be pruned is still there, as pruning is the last statement), or it
  moves forward.

`AccessControlProofs`: `AccessInv` are the types and what each process may rely
on. `AlwaysMadeInFull` follows what each process has begun (`AllCovered`).
`SignInsAlwaysSettle` follows the undisturbed sign-ins of a user, any number of
them at a time, statement by statement: `Settling` says which groups he may have
at each. All of them go by the same claims (`Together`), so a step of one only
adds groups that the others want, only removes groups that they do not, and
leaves alone what was assigned by hand (`Gentle`); hence it disturbs neither
their `Settling` nor what a first one has settled (`Settled`, with `AgreeAfter`
for who goes by which claims after the step). Users and groups have different names
(`AccessAssumption`).

`FileProofs`: a scratch file belongs to one process and certificate; what its
process has written whole is whole until it is replaced: `CaFileAlwaysWhole`.
`NoImageEverTakenOver` needs no invariant: an upload creates a row only under a
free slug, whatever it found before.

Every invariant and action property that a run checks and that holds is proved,
in every module. Only model-checked are `EndOfBodyAnswered` and `LookupEnds`:
they are liveness under fairness and out of the prover's reach.

## 6. Not modelled

- *Forms, pages, statistics, editor front end*: rendering of one request,
  without state of its own. Their effect on the rows is in the model as the
  edits of each module. The preview and the signature test read rows once and
  write none; what they compute is what `MimeActions` and `RuleMatching` model.
  One difference is known: the list of matched rules in the signature test also
  shows rules that a Deny requirement stops.
- *Connection test and attribute discovery of the admin* (`ldap_helper.py`):
  one query each, whose answer is shown; the CA file is modelled.
- *Regular expressions, templates as text, charsets, MIME parsing*: data, kept
  as the sets and records that the properties tell apart.
- *Validity windows*: they are one Boolean of the action row that time may flip;
  where exactly the bounds lie is a comparison of dates.
- *Dry run* of the sync commands: it writes nothing.
- *Settings, health check, web entry points, logging*: wiring and text.
- *Generated migrations*: only their `post_migrate` signal, as the boot of
  `AccessControl`.
- *The protocol library* (ppymilter) and *libldap*: external, modelled as the
  order of callbacks they guarantee and as answers or errors.

--------------------------- MODULE DirectoryLookup ---------------------------
(***************************************************************************)
(* What a child process asks the directory servers at the end of a body    *)
(* (milter_helper.py): first whether the directory conditions of the       *)
(* requirements in play hold, then, for each action that resolves the      *)
(* sender, the attributes its template needs.  Between the two and between *)
(* mails, answers live in the query cache of the process (query_cache.py). *)
(*                                                                         *)
(* A step is one look into the cache or one search on one URL.  Between    *)
(* any two of them time passes, URLs come and go, the directories change   *)
(* and administrators edit the servers.                                    *)
(*                                                                         *)
(* The query of a server is abstracted to the address it is made for.      *)
(***************************************************************************)
EXTENDS Naturals, Sequences, FiniteSets

CONSTANTS
    Server,     \* primary keys of the directory servers
    Url,        \* their URLs ...
    UrlsOf,     \* ... server -> sequence of URLs, by position
    Tenant,     \* primary keys of the tenants
    Address,    \* envelope senders
    TenantOf,   \* address -> the tenants match_sender() finds, at most one
    Attr,       \* attribute names other than memberOf
    Value,      \* attribute values, names of groups among them
    Req,        \* requirements with directory conditions
    Conditions, \* requirement -> its conditions
    Action,     \* actions that resolve the sender
    ActionRow,  \* action -> its servers, attributes and resolve_sender_fail
    ServerRow,  \* the rows the server table may hold
    Answer,     \* server -> address -> what the directory may answer
    MaxTime,    \* seconds (bound)
    MaxMails,   \* mails (bound)
    MaxParts,   \* MIME parts an action resolves the sender for (bound)
    MaxChanges  \* changes of rows, URLs and directories (bound)

None == "none"

\* An entry has values per attribute, the groups it is a direct member of
\* among them, and groups it is in by way of others, which only Active
\* Directory matches.
EntryAttr == Attr \cup {"memberof"}
Entries == [EntryAttr \cup {"inchain"} -> SUBSET Value]

\* What a search finds: entries, and references to other directories, which
\* python-ldap delivers as (None, ...) in the same list.
Answers == [entries : Seq(Entries), referrals : Nat]

\* models.DirectoryServer; "ad" is the flavour Active Directory.
ServerRows == [enabled : BOOLEAN, caching : BOOLEAN, timeout : Nat, ad : BOOLEAN,
               tenant : SUBSET Tenant]

\* models.RequirementCondition; a pattern is the set of values it matches.
ConditionRows == [kind : {"attribute"}, attribute : Attr, pattern : SUBSET Value]
            \cup [kind : {"group"}, group : Value]

\* models.Action; "attributes" are those the template names.
ActionRows == [servers : SUBSET Server, attributes : SUBSET EntryAttr, fail : BOOLEAN]

ASSUME DirectoryAssumption ==
    /\ None \notin Server
    /\ Server \cap Url = {}
    /\ UrlsOf \in [Server -> Seq(Url)]
    /\ TenantOf \in [Address -> SUBSET Tenant]
    /\ Conditions \in [Req -> (SUBSET ConditionRows) \ {{}}]
    /\ ActionRow \in [Action -> ActionRows]
    /\ ServerRow \subseteq ServerRows /\ ServerRow # {}
    /\ Answer \in [Server -> [Address -> SUBSET Answers]]
    /\ MaxTime \in Nat
    /\ MaxMails \in Nat
    /\ MaxParts \in Nat
    /\ MaxChanges \in Nat

VARIABLES
    now,        \* time.monotonic()
    \* outside the process
    row,        \* server -> its row in the database
    directory,  \* server -> address -> what a search for the address finds
    state,      \* URL -> "up", "down" or "malformed"
    changes,    \* changes made so far
    \* QueryCache of the process
    cache,      \* server -> entries [key, stamp, data]
    timeout,    \* server -> _timeout
    \* the mail
    stage,      \* "idle", "sender", "groups", "actions", "resolving" or "raised"
    mails,      \* mails begun
    sender,     \* envelope_from
    checked,    \* requirements in play that have conditions
    found,      \* what _sender_entry() returned: a server and its values
    members,    \* groups asked for on Active Directory, and the answers
    failed,     \* requirements whose conditions do not hold
    prefetched, \* server rows as of the query for the actions
    acting,     \* actions begun, the one in progress last
    parts,      \* parts that action has been applied to
    memo,       \* _resolver_cache
    \* the lookup in progress
    rows,       \* rows of the servers as of its start
    left,       \* servers it has not reached
    at,         \* the server it searches
    urls,       \* URLs of that server it has not tried
    resolved,   \* a server has delivered
    attributes, \* attributes delivered so far
    \* history, for the properties only
    ever,       \* server -> address -> answers it has had for it
    steady,     \* servers and working URLs not changed since the mail began
    taken,      \* the last answer of the mail taken from the cache
    used        \* what the parts of the mail were given

environment == <<row, directory, state, changes>>
cacheVars   == <<cache, timeout>>
mailVars    == <<mails, sender, checked>>
verdictVars == <<found, members, failed>>
actionVars  == <<prefetched, acting, parts, memo>>
lookupVars  == <<rows, left, at, urls>>
resultVars  == <<resolved, attributes>>
history     == <<ever, steady>>
vars == <<now, environment, cacheVars, stage, mailVars, verdictVars, actionVars,
          lookupVars, resultVars, history, taken, used>>

-----------------------------------------------------------------------------
(* Answers and what is asked for. *)

NotFound == [server |-> None, values |-> <<>>]
NothingTaken == [age |-> 0, ask |-> {}]

\* len(result)
Size(answer) == Len(answer.entries) + answer.referrals

\* Faulty variant, for mutation: the first of several will do.
AnyEntry(answer) == Size(answer) >= 1

\* The sender is known if there is one result.
OneResult(answer) == Size(answer) = 1

\* The one result is a referral: its values are no dictionary, reading them
\* raises an exception nobody handles.
Unreadable(answer) == answer.entries = <<>>

\* The attributes of an entry that a search delivers: names asked for, or all
\* of them; those without values never.
Shown(entry, ask) ==
    [n \in {m \in EntryAttr : (m \in ask \/ ask = {"*"}) /\ entry[m] # {}} |-> entry[n]]

\* A search for the sender.
Found(s, ask) ==
    LET answer == directory[s][sender]
    IN  [entries   |-> [i \in DOMAIN answer.entries |-> Shown(answer.entries[i], ask)],
         referrals |-> answer.referrals]

\* The attributes of "f" updated with those of "g".
Update(f, g) == [n \in DOMAIN f \cup DOMAIN g |-> IF n \in DOMAIN g THEN g[n] ELSE f[n]]

\* What the conditions "cs" need from a server: one lookup for all of them.
ConditionAsk(cs, ad) ==
    LET names  == {c.attribute : c \in {d \in cs : d.kind = "attribute"}}
        groups == IF ~ad /\ \E c \in cs : c.kind = "group" THEN {"memberof"} ELSE {}
    IN  IF names \cup groups = {} THEN {"1.1"} ELSE names \cup groups

\* What the template of an action needs.
ActionAsk(x) == IF ActionRow[x].attributes = {} THEN {"*"} ELSE ActionRow[x].attributes

InPlay == UNION {Conditions[r] : r \in checked}

Acting == acting[Len(acting)]

\* What the lookup in progress asks server s for.
Ask(s) == IF stage = "sender" THEN ConditionAsk(InPlay, rows[s].ad) ELSE ActionAsk(Acting)

-----------------------------------------------------------------------------
(* QueryCache. *)

\* Faulty variant, for mutation: the key does not tell what was asked for.
KeyOfQuery(ask) == <<sender>>

\* The key of an answer.
CacheKey(ask) == <<sender, ask>>

\* get(): the cached answer, if there is one that has not timed out.
Hits(s) ==
    {c \in cache[s] : rows[s].caching /\ c.key = CacheKey(Ask(s)) /\ now - c.stamp <= timeout[s]}

Fresh(s, answer) == [key |-> CacheKey(Ask(s)), stamp |-> now, readAt |-> now, data |-> answer]

\* set(), unless the server is not cached.  (readAt is history: when the
\* directory gave the answer.)
Store(s, entry) ==
    IF rows[s].caching
    THEN /\ cache' = [cache EXCEPT ![s] = {c \in @ : c.key # entry.key} \cup {entry}]
         /\ timeout' = [timeout EXCEPT ![s] = rows[s].timeout]
    ELSE UNCHANGED cacheVars

\* Faulty variant, for mutation: an answer taken is an answer renewed.
Renewed(s, entry) == Store(s, [entry EXCEPT !.stamp = now])

\* A hit of an action leaves the cache alone.
AsCached(s, entry) == UNCHANGED cacheVars

-----------------------------------------------------------------------------
(* Lookups. *)

\* The enabled servers of the sender's tenant.
TenantServers(a) ==
    {s \in Server : row[s].enabled /\ TenantOf[a] # {} /\ row[s].tenant = TenantOf[a]}

\* Faulty variant, for mutation: one URL of a server is tried.
NoFailover == <<>>

\* The URLs to try when one has failed.
NextUrls == Tail(urls)

\* Faulty variant, for mutation: a server is never done with.
StillLeft(s) == left

\* The servers after s.
Remaining(s) == left \ {s}

\* Faulty variant, for mutation: the outcome is not kept for other parts.
Forget(outcome) == memo

\* _resolver_cache[action.pk] = ...
Remember(outcome) == memo \cup {outcome}

\* A search that delivered, for an action.
Delivers(answer) == Size(answer) > 0

\* Whether condition c holds for what was found.
Holds(c) ==
    /\ found.server # None
    /\ \/ /\ c.kind = "attribute"
          /\ c.attribute \in DOMAIN found.values
          /\ c.pattern \cap found.values[c.attribute] # {}
       \/ /\ c.kind = "group"
          /\ ~rows[found.server].ad
          /\ "memberof" \in DOMAIN found.values
          /\ c.group \in found.values["memberof"]
       \/ /\ c.kind = "group"
          /\ rows[found.server].ad
          /\ \E i \in DOMAIN members : members[i].group = c.group /\ members[i].member

\* Groups still to be asked for.
GroupsToAsk ==
    {c.group : c \in {d \in InPlay : /\ d.kind = "group"
                                     /\ found.server # None
                                     /\ rows[found.server].ad
                                     /\ \A i \in DOMAIN members : members[i].group # d.group}}

-----------------------------------------------------------------------------

Init ==
    /\ now = 0
    /\ row \in [Server -> ServerRow]
    /\ directory \in {d \in [Server -> [Address -> UNION {Answer[s][a] : s \in Server, a \in Address}]] :
                         \A s \in Server, a \in Address : d[s][a] \in Answer[s][a]}
    /\ state \in [Url -> {"up", "down"}]
    /\ changes = 0
    /\ cache = [s \in Server |-> {}]
    /\ timeout = [s \in Server |-> 0]
    /\ stage = "idle"
    /\ mails = 0
    /\ sender \in Address
    /\ checked = {}
    /\ found = NotFound
    /\ members = <<>>
    /\ failed = {}
    /\ prefetched = row
    /\ acting = <<>>
    /\ parts = 0
    /\ memo = {}
    /\ rows = row
    /\ left = {}
    /\ at = None
    /\ urls = <<>>
    /\ resolved = FALSE
    /\ attributes = <<>>
    /\ ever = [s \in Server |-> [a \in Address |-> {directory[s][a]}]]
    /\ steady = {}
    /\ taken = NothingTaken
    /\ used = {}

Tick ==
    /\ now < MaxTime
    /\ now' = now + 1
    /\ UNCHANGED <<environment, cacheVars, stage, mailVars, verdictVars, actionVars,
                   lookupVars, resultVars, history, taken, used>>

\* An administrator saves a server.
EditServer ==
    /\ changes < MaxChanges
    /\ changes' = changes + 1
    /\ \E s \in Server, new \in ServerRow :
          /\ new # row[s]
          /\ row' = [row EXCEPT ![s] = new]
          /\ steady' = steady \ {s}
    /\ UNCHANGED <<now, directory, state, cacheVars, stage, mailVars, verdictVars,
                   actionVars, lookupVars, resultVars, ever, taken, used>>

\* A URL stops answering, refuses, answers again or is edited into something
\* ldap.initialize() rejects.
UrlChanges ==
    /\ changes < MaxChanges
    /\ changes' = changes + 1
    /\ \E u \in Url, new \in {"up", "down", "malformed"} :
          /\ new # state[u]
          /\ state' = [state EXCEPT ![u] = new]
          /\ steady' = steady \ {u}
    /\ UNCHANGED <<now, row, directory, cacheVars, stage, mailVars, verdictVars,
                   actionVars, lookupVars, resultVars, ever, taken, used>>

\* An entry is added, changed or removed.
DirectoryChanges ==
    /\ changes < MaxChanges
    /\ changes' = changes + 1
    /\ \E s \in Server, a \in Address : \E new \in Answer[s][a] :
          /\ new # directory[s][a]
          /\ directory' = [directory EXCEPT ![s][a] = new]
          /\ ever' = [ever EXCEPT ![s][a] = @ \cup {new}]
          /\ steady' = steady \ {s}
    /\ UNCHANGED <<now, row, state, cacheVars, stage, mailVars, verdictVars, actionVars,
                   lookupVars, resultVars, taken, used>>

\* eob() reaches the directory conditions of the requirements in play.
BeginMail ==
    /\ stage = "idle"
    /\ mails < MaxMails
    /\ mails' = mails + 1
    /\ stage' = "sender"
    /\ \E a \in Address, reqs \in SUBSET Req :
          /\ sender' = a
          /\ checked' = reqs
          /\ left' = IF reqs = {} THEN {} ELSE TenantServers(a)
    /\ rows' = row
    /\ found' = NotFound
    /\ members' = <<>>
    /\ failed' = {}
    /\ acting' = <<>>
    /\ parts' = 0
    /\ memo' = {}
    /\ steady' = Server \cup {u \in Url : state[u] = "up"}
    /\ taken' = NothingTaken
    /\ used' = {}
    /\ UNCHANGED <<now, environment, cacheVars, prefetched, at, urls, resultVars, ever>>

\* The next server is searched, as the cache has no answer of it, or is
\* skipped, as it is disabled (which only an explicit one can be).
NextServer ==
    /\ stage \in {"sender", "resolving"}
    /\ at = None
    /\ \E s \in left :
          /\ left' = Remaining(s)
          /\ IF rows[s].enabled
             THEN Hits(s) = {} /\ at' = s /\ urls' = UrlsOf[s]
             ELSE UNCHANGED <<at, urls>>
    /\ UNCHANGED <<now, environment, cacheVars, stage, mailVars, verdictVars, actionVars,
                   rows, resultVars, history, taken, used>>

\* No connection, no bind or no search: the next URL is tried.
UrlFails ==
    /\ at # None
    /\ urls # <<>>
    /\ state[Head(urls)] = "down"
    /\ urls' = NextUrls
    /\ UNCHANGED <<now, environment, cacheVars, stage, mailVars, verdictVars, actionVars,
                   rows, left, at, resultVars, history, taken, used>>

\* open_connection() raises, outside of every handler.
UrlRaises ==
    /\ at # None
    /\ urls # <<>>
    /\ state[Head(urls)] = "malformed"
    /\ stage' = "raised"
    /\ UNCHANGED <<now, environment, cacheVars, mailVars, verdictVars, actionVars,
                   lookupVars, resultVars, history, taken, used>>

\* No URL is left: the server gives nothing.
UrlsExhausted ==
    /\ at # None
    /\ urls = <<>>
    /\ at' = None
    /\ UNCHANGED <<now, environment, cacheVars, stage, mailVars, verdictVars, actionVars,
                   rows, left, urls, resultVars, history, taken, used>>

-----------------------------------------------------------------------------
(* _failed_directory_conditions() *)

\* The rest of _sender_entry() for an answer of s, searched or cached: one
\* result ends the lookup and is cached, again if need be.
UseForSender(s, entry) ==
    IF OneResult(entry.data)
    THEN /\ Store(s, [entry EXCEPT !.stamp = now])
         /\ IF Unreadable(entry.data)
            THEN stage' = "raised" /\ UNCHANGED found
            ELSE /\ stage' = "groups"
                 /\ found' = [server |-> s, values |-> entry.data.entries[1]]
    ELSE UNCHANGED <<cacheVars, stage, found>>

SenderFromCache ==
    /\ stage = "sender"
    /\ at = None
    /\ \E s \in left : \E entry \in Hits(s) :
          /\ left' = Remaining(s)
          /\ UseForSender(s, entry)
          /\ taken' = [age |-> now - entry.readAt, ask |-> Ask(s)]
    /\ UNCHANGED <<now, environment, mailVars, members, failed, actionVars, rows, at, urls,
                   resultVars, history, used>>

SenderAnswered ==
    /\ stage = "sender"
    /\ at # None
    /\ urls # <<>>
    /\ state[Head(urls)] = "up"
    /\ UseForSender(at, Fresh(at, Found(at, Ask(at))))
    /\ at' = None
    /\ urls' = <<>>
    /\ UNCHANGED <<now, environment, mailVars, members, failed, actionVars, rows, left,
                   resultVars, history, taken, used>>

SenderUnknown ==
    /\ stage = "sender"
    /\ at = None
    /\ left = {}
    /\ stage' = "groups"
    /\ UNCHANGED <<now, environment, cacheVars, mailVars, verdictVars, actionVars,
                   lookupVars, resultVars, history, taken, used>>

\* _is_member() on Active Directory: a search of its own for each group, never
\* cached; what stays unanswered counts as no.
AskGroup ==
    /\ stage = "groups"
    /\ at = None
    /\ \E g \in GroupsToAsk : members' = Append(members, [group |-> g, member |-> FALSE])
    /\ at' = found.server
    /\ urls' = UrlsOf[found.server]
    /\ UNCHANGED <<now, environment, cacheVars, stage, mailVars, found, failed, actionVars,
                   rows, left, resultVars, history, taken, used>>

GroupAnswered ==
    /\ stage = "groups"
    /\ at # None
    /\ urls # <<>>
    /\ state[Head(urls)] = "up"
    /\ LET answer == directory[at][sender]
           last   == Len(members)
       IN  members' = [members EXCEPT ![last].member =
               \E i \in DOMAIN answer.entries :
                   members[last].group \in answer.entries[i]["inchain"]]
    /\ at' = None
    /\ urls' = <<>>
    /\ UNCHANGED <<now, environment, cacheVars, stage, mailVars, found, failed, actionVars,
                   rows, left, resultVars, history, taken, used>>

\* The conditions are judged, then eob() queries rules and actions.
Verdict ==
    /\ stage = "groups"
    /\ at = None
    /\ GroupsToAsk = {}
    /\ stage' = "actions"
    /\ failed' = {r \in checked : \E c \in Conditions[r] : ~Holds(c)}
    /\ prefetched' = row
    /\ UNCHANGED <<now, environment, cacheVars, mailVars, found, members, acting, parts,
                   memo, lookupVars, resultVars, history, taken, used>>

-----------------------------------------------------------------------------
(* _resolve_sender() *)

\* do_action() begins for an action of the rules that apply.
BeginAction ==
    /\ stage = "actions"
    /\ \E x \in Action :
          /\ \A i \in DOMAIN acting : acting[i] # x
          /\ acting' = Append(acting, x)
    /\ parts' = 0
    /\ UNCHANGED <<now, environment, cacheVars, stage, mailVars, verdictVars, prefetched,
                   memo, lookupVars, resultVars, history, taken, used>>

\* A part gets what the memo has for its action.
ResolveFromMemo ==
    /\ stage = "actions"
    /\ acting # <<>>
    /\ parts < MaxParts
    /\ \E outcome \in memo :
          /\ outcome.action = Acting
          /\ used' = used \cup {outcome}
    /\ parts' = parts + 1
    /\ UNCHANGED <<now, environment, cacheVars, stage, mailVars, verdictVars, prefetched,
                   acting, memo, lookupVars, resultVars, history, taken>>

\* Or the servers are asked: those of the action, else those of the tenant.
BeginResolve ==
    /\ stage = "actions"
    /\ acting # <<>>
    /\ parts < MaxParts
    /\ \A outcome \in memo : outcome.action # Acting
    /\ stage' = "resolving"
    /\ IF ActionRow[Acting].servers # {}
       THEN left' = ActionRow[Acting].servers /\ rows' = prefetched
       ELSE left' = TenantServers(sender) /\ rows' = row
    /\ resolved' = FALSE
    /\ attributes' = <<>>
    /\ UNCHANGED <<now, environment, cacheVars, mailVars, verdictVars, actionVars, at, urls,
                   history, taken, used>>

\* The attributes of an answer, if it is one entry.
AddAttributes(answer) ==
    IF ~OneResult(answer) THEN UNCHANGED <<stage, attributes>>
    ELSE IF Unreadable(answer) THEN stage' = "raised" /\ UNCHANGED attributes
    ELSE attributes' = Update(attributes, answer.entries[1]) /\ UNCHANGED stage

\* The lookup ends with this outcome, for this part and the ones to come.
Resolve(ok) ==
    LET outcome == [action |-> Acting, resolved |-> ok, attributes |-> attributes]
    IN  /\ memo' = Remember(outcome)
        /\ used' = used \cup {outcome}
        /\ parts' = parts + 1
        /\ stage' = "actions"
        /\ left' = {}
        /\ at' = None
        /\ urls' = <<>>

ResolveFromCache ==
    /\ stage = "resolving"
    /\ at = None
    /\ \E s \in left :
          /\ rows[s].enabled
          /\ left' = Remaining(s)
          /\ \E entry \in Hits(s) :
                /\ AddAttributes(entry.data)
                /\ AsCached(s, entry)
                /\ taken' = [age |-> now - entry.readAt, ask |-> Ask(s)]
    /\ resolved' = TRUE
    /\ UNCHANGED <<now, environment, mailVars, verdictVars, actionVars, rows, at, urls,
                   history, used>>

\* The search of an action that must not go on without the sender finds none
\* or several: that is the outcome, whatever the other servers have.
ResolveRefused ==
    /\ stage = "resolving"
    /\ at # None
    /\ urls # <<>>
    /\ state[Head(urls)] = "up"
    /\ ActionRow[Acting].fail
    /\ ~OneResult(Found(at, Ask(at)))
    /\ Resolve(FALSE)
    /\ UNCHANGED <<now, environment, cacheVars, mailVars, verdictVars, prefetched, acting,
                   rows, resultVars, history, taken>>

\* The search finds something, or nothing, and then the next URL is tried.
ResolveAnswered ==
    /\ stage = "resolving"
    /\ at # None
    /\ urls # <<>>
    /\ state[Head(urls)] = "up"
    /\ LET answer == Found(at, Ask(at))
       IN  /\ ~ActionRow[Acting].fail \/ OneResult(answer)
           /\ IF Delivers(answer)
              THEN /\ Store(at, Fresh(at, answer))
                   /\ AddAttributes(answer)
                   /\ resolved' = TRUE
                   /\ at' = None
                   /\ urls' = <<>>
              ELSE /\ urls' = NextUrls
                   /\ UNCHANGED <<cacheVars, stage, attributes, resolved, at>>
    /\ UNCHANGED <<now, environment, mailVars, verdictVars, actionVars, rows, left,
                   history, taken, used>>

\* No server is left.
ResolveDone ==
    /\ stage = "resolving"
    /\ at = None
    /\ left = {}
    /\ Resolve(resolved)
    /\ UNCHANGED <<now, environment, cacheVars, mailVars, verdictVars, prefetched, acting,
                   rows, resultVars, history, taken>>

\* eob() is done.
EndMail ==
    /\ stage = "actions"
    /\ stage' = "idle"
    /\ UNCHANGED <<now, environment, cacheVars, mailVars, verdictVars, actionVars,
                   lookupVars, resultVars, history, taken, used>>

\* The connection ends or was dropped; the next one has a process of its own,
\* and with it an empty cache.
NewConnection ==
    /\ stage \in {"idle", "raised"}
    /\ stage' = "idle"
    /\ cache' = [s \in Server |-> {}]
    /\ timeout' = [s \in Server |-> 0]
    /\ left' = {}
    /\ at' = None
    /\ urls' = <<>>
    /\ used' = {}
    /\ UNCHANGED <<now, environment, mailVars, verdictVars, actionVars, rows, resultVars,
                   history, taken>>

Lookup ==
    \/ NextServer \/ UrlFails \/ UrlRaises \/ UrlsExhausted
    \/ SenderFromCache \/ SenderAnswered \/ SenderUnknown
    \/ AskGroup \/ GroupAnswered \/ Verdict
    \/ ResolveFromMemo \/ ResolveFromCache \/ ResolveRefused \/ ResolveAnswered \/ ResolveDone

Next ==
    \/ Tick \/ EditServer \/ UrlChanges \/ DirectoryChanges
    \/ BeginMail \/ Lookup \/ BeginAction \/ BeginResolve \/ EndMail \/ NewConnection

Spec == Init /\ [][Next]_vars

\* Every call in a lookup returns: connections and searches time out.
FairSpec == Spec /\ WF_vars(Lookup)
-----------------------------------------------------------------------------
(* Properties. *)

\* The directory knows exactly one entry for the address.
KnowsOne(answer) == Len(answer.entries) = 1 /\ answer.referrals = 0

\* Entry e of server s meets condition c; groups may have been asked for later.
Meets(s, e, c) ==
    \/ c.kind = "attribute" /\ c.pattern \cap e[c.attribute] # {}
    \/ c.kind = "group" /\ c.group \in e["memberof"]
    \/ /\ c.kind = "group"
       /\ \E later \in ever[s][sender] : \E i \in DOMAIN later.entries :
             c.group \in later.entries[i]["inchain"]

\* A requirement whose conditions count as met has them met by one server, and
\* by one answer of it in which the sender was the only entry: never by values
\* of several servers, of several entries or of another sender, however often
\* the cache, a failed URL or an edited row came between
\* (_failed_directory_conditions(), _sender_entry()).
GroundedVerdicts ==
    stage = "actions" /\ checked # failed =>
        \E s \in Server : \E answer \in ever[s][sender] :
            /\ KnowsOne(answer)
            /\ \A r \in checked \ failed : \A c \in Conditions[r] :
                  Meets(s, answer.entries[1], c)

\* The parts of a mail are given the same data for an action, whatever happens
\* to the directories and the servers meanwhile (_resolver_cache).
PartsAgree == \A p, q \in used : p.action = q.action => p = q

\* Every attribute a part is given was asked for by its action and is that of an
\* entry found for this sender; and an action that goes on has a server whose
\* answer, if it is one entry, it was given completely: an answer cached for
\* other attributes is never taken for it (cache_key, _resolve_sender()).
SignatureDataTrue ==
    \A p \in used :
        /\ \A n \in DOMAIN p.attributes :
              /\ n \in ActionAsk(p.action) \/ ActionAsk(p.action) = {"*"}
              /\ \E s \in Server : \E answer \in ever[s][sender] :
                    KnowsOne(answer) /\ answer.entries[1][n] = p.attributes[n]
        /\ p.resolved =>
              \E s \in Server : \E answer \in ever[s][sender] :
                  /\ Len(answer.entries) + answer.referrals > 0
                  /\ KnowsOne(answer) =>
                        DOMAIN Shown(answer.entries[1], ActionAsk(p.action))
                            \subseteq DOMAIN p.attributes

\* What the conditions of requirements in play may ask for.
AskedFor(reqs, ad) == ConditionAsk(UNION {Conditions[r] : r \in reqs}, ad)
ConditionAsks == {AskedFor(reqs, ad) : reqs \in (SUBSET Req) \ {{}}, ad \in BOOLEAN}

InTime(age) == \E r \in ServerRow : age <= r.timeout

\* An answer an action takes from the cache is no older than a cache timeout,
\* even if the mails of the connection keep asking for it (QueryCache.get()),
\* unless conditions ask for the same attributes.
SignatureDataFresh == taken.ask \notin ConditionAsks => InTime(taken.age)

\* Server s can be reached all along: it and one of its URLs have not changed
\* since the mail began.
Reachable(s) ==
    /\ s \in steady
    /\ row[s].enabled
    /\ \E i \in DOMAIN UrlsOf[s] : UrlsOf[s][i] \in steady

\* The servers for an action.
ServersFor(x) ==
    IF ActionRow[x].servers # {} THEN ActionRow[x].servers ELSE TenantServers(sender)

\* The conditions have just been judged, of a sender found nowhere.
JudgedUnknown == stage = "actions" /\ acting = <<>> /\ checked # {} /\ found = NotFound

\* A sender whom a reachable server knows is found, by the conditions and by
\* actions that do not insist on it, even if other servers or URLs do not
\* answer.  (A cached answer of several entries stands for its server until it
\* times out.)
ReachableSenderFound ==
    /\ JudgedUnknown =>
          \A s \in TenantServers(sender) :
              /\ Reachable(s)
              /\ KnowsOne(directory[s][sender])
              => \E c \in cache[s] : c.key[1] = sender /\ Size(c.data) > 1
    /\ stage \in {"actions", "resolving"} =>
          \A outcome \in memo :
              ~outcome.resolved /\ ~ActionRow[outcome.action].fail =>
                  \A s \in ServersFor(outcome.action) :
                      ~(Reachable(s) /\ KnowsOne(directory[s][sender]))

\* A body whose sender is looked up is answered: whichever URLs fail or
\* change, no lookup goes on for ever.
LookupEnds ==
    stage \in {"sender", "groups", "resolving"} ~> stage \in {"actions", "idle", "raised"}

\* models.py:573: "How long (in seconds) a query is cached".
NoValueOutlivesCache == InTime(taken.age)

\* docs/en/signatures.md:148: "If the directory does not answer, times out or
\* does not know the sender, the condition does **not** hold and the mail is not
\* deferred".
NeverRaises == stage # "raised"
=============================================================================

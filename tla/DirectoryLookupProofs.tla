------------------------ MODULE DirectoryLookupProofs ------------------------
(* Theorems about DirectoryLookup, for every value of its constants. *)
EXTENDS DirectoryLookup, SequenceTheorems, TLAPS

\* What a part is given is remembered, the memo has one outcome per action, and
\* an action whose sender is being looked up has none yet.
Memoised ==
    /\ used \subseteq memo
    /\ \A p, q \in memo : p.action = q.action => p = q
    /\ stage = "resolving" => \A p \in memo : p.action # Acting

LEMMA MemoisedInitially == Init => Memoised
BY DEF Init, Memoised

\* The end of a lookup adds the one outcome of its action.
LEMMA ResolveMemoises ==
    ASSUME Memoised, stage = "resolving", NEW ok, Resolve(ok)
    PROVE  Memoised'
<1> DEFINE outcome == [action |-> Acting, resolved |-> ok, attributes |-> attributes]
<1>1. /\ memo' = memo \cup {outcome}
      /\ used' = used \cup {outcome}
      /\ stage' = "actions"
    BY DEF Resolve, Remember
<1>2. outcome.action = Acting
    OBVIOUS
<1>3. \A p \in memo : p.action # outcome.action
    BY <1>2 DEF Memoised
<1> HIDE DEF outcome
<1> QED BY <1>1, <1>3 DEF Memoised

LEMMA MemoisedKept == Memoised /\ [Next]_vars => Memoised'
<1> SUFFICES ASSUME Memoised, [Next]_vars PROVE Memoised'
    OBVIOUS
\* Steps that leave memo, action and stage alone.
<1>1. ASSUME UNCHANGED <<memo, acting, stage, used>> PROVE Memoised'
    BY <1>1 DEF Memoised, Acting
\* Steps that do so and end the lookup.
<1>2. ASSUME UNCHANGED <<memo, used>>, stage' # "resolving" PROVE Memoised'
    BY <1>2 DEF Memoised
<1>3. CASE UNCHANGED vars
    BY <1>3, <1>1 DEF vars, actionVars
<1>4. CASE Tick \/ EditServer \/ UrlChanges \/ DirectoryChanges
    BY <1>4, <1>1 DEF Tick, EditServer, UrlChanges, DirectoryChanges, actionVars
<1>5. CASE BeginMail
    BY <1>5 DEF BeginMail, Memoised
<1>6. CASE NextServer \/ UrlFails \/ UrlsExhausted
    BY <1>6, <1>1 DEF NextServer, UrlFails, UrlsExhausted, actionVars
<1>7. CASE UrlRaises \/ SenderUnknown \/ Verdict
    BY <1>7, <1>2 DEF UrlRaises, SenderUnknown, Verdict, actionVars
<1>8. CASE SenderFromCache
    <2>1. UNCHANGED <<memo, used>> BY <1>8 DEF SenderFromCache, actionVars
    <2>2. stage' # "resolving" BY <1>8 DEF SenderFromCache, UseForSender
    <2> QED BY <2>1, <2>2, <1>2
<1>9. CASE SenderAnswered
    <2>1. UNCHANGED <<memo, used>> BY <1>9 DEF SenderAnswered, actionVars
    <2>2. stage' # "resolving" BY <1>9 DEF SenderAnswered, UseForSender
    <2> QED BY <2>1, <2>2, <1>2
<1>10. CASE AskGroup \/ GroupAnswered
    BY <1>10, <1>1 DEF AskGroup, GroupAnswered, actionVars
<1>11. CASE BeginAction
    BY <1>11, <1>2 DEF BeginAction
<1>12. CASE ResolveFromMemo
    BY <1>12 DEF ResolveFromMemo, Memoised
<1>13. CASE BeginResolve
    <2>1. UNCHANGED <<memo, acting, used>> BY <1>13 DEF BeginResolve, actionVars
    <2>2. \A p \in memo : p.action # Acting BY <1>13 DEF BeginResolve
    <2> QED BY <2>1, <2>2 DEF Memoised, Acting
<1>14. CASE ResolveFromCache
    <2>1. UNCHANGED <<memo, acting, used>> BY <1>14 DEF ResolveFromCache, actionVars
    <2>2. stage' = stage \/ stage' = "raised"
        BY <1>14 DEF ResolveFromCache, AddAttributes
    <2> QED BY <2>1, <2>2, <1>1, <1>2
<1>15. CASE ResolveAnswered
    <2>1. UNCHANGED <<memo, acting, used>> BY <1>15 DEF ResolveAnswered, actionVars
    <2>2. stage' = stage \/ stage' = "raised"
        BY <1>15 DEF ResolveAnswered, AddAttributes
    <2> QED BY <2>1, <2>2, <1>1, <1>2
<1>16. CASE ResolveRefused
    BY <1>16, ResolveMemoises DEF ResolveRefused
<1>17. CASE ResolveDone
    BY <1>17, ResolveMemoises DEF ResolveDone
<1>18. CASE EndMail
    BY <1>18, <1>2 DEF EndMail, actionVars
<1>19. CASE NewConnection
    BY <1>19 DEF NewConnection, actionVars, Memoised
<1> QED BY <1>3, <1>4, <1>5, <1>6, <1>7, <1>8, <1>9, <1>10, <1>11, <1>12, <1>13,
           <1>14, <1>15, <1>16, <1>17, <1>18, <1>19 DEF Next, Lookup

\* The parts of a mail are given the same data for an action: whatever changes
\* between two parts, the second one is served from the memo (_resolver_cache).
THEOREM PartsAgreeAlways == Spec => []PartsAgree
<1>1. Memoised => PartsAgree
    BY DEF Memoised, PartsAgree
<1> QED BY <1>1, MemoisedInitially, MemoisedKept, PTL DEF Spec

-----------------------------------------------------------------------------
(* Types, as far as the proofs below need them, and where the process is when *)
(* it searches nothing.                                                       *)

Types ==
    /\ now \in Nat
    /\ row \in [Server -> ServerRow]
    /\ rows \in [Server -> ServerRow]
    /\ prefetched \in [Server -> ServerRow]
    /\ directory \in [Server -> [Address -> Answers]]
    /\ ever \in [Server -> [Address -> SUBSET Answers]]
    /\ \A s \in Server, a \in Address : directory[s][a] \in ever[s][a]
    /\ DOMAIN state = Url
    /\ DOMAIN cache = Server /\ DOMAIN timeout = Server
    /\ stage \in {"idle", "sender", "groups", "actions", "resolving", "raised"}
    /\ sender \in Address
    /\ checked \subseteq Req
    /\ found.server \in Server \cup {None}
    /\ members \in Seq([group : Value, member : BOOLEAN])
    /\ acting \in Seq(Action)
    /\ \A outcome \in memo : outcome.action \in Action
    /\ left \subseteq Server
    /\ at \in Server \cup {None}
    /\ urls \in Seq(Url)

Places ==
    /\ stage = "resolving" => acting # <<>>
    /\ stage \in {"idle", "actions"} => at = None
    /\ stage = "sender" /\ checked = {} => left = {} /\ at = None
    /\ stage = "groups" => at \in {None, found.server}
    /\ stage = "groups" /\ at # None => members # <<>>

TypeInv == Types /\ Places

LEMMA ActingIs == ASSUME Types, acting # <<>> PROVE Acting \in Action
BY ElementOfSeq DEF Types, Acting

LEMMA TypesInitially == Init => TypeInv
<1> SUFFICES ASSUME Init PROVE TypeInv
    OBVIOUS
<1> USE DirectoryAssumption DEF Init
<1>1. directory \in [Server -> [Address -> Answers]]
    <2>1. ASSUME NEW s \in Server, NEW a \in Address PROVE directory[s][a] \in Answers
        BY <2>1
    <2> QED BY <2>1
<1>2. ever \in [Server -> [Address -> SUBSET Answers]]
    BY <1>1
<1>3. \A s \in Server, a \in Address : directory[s][a] \in ever[s][a]
    OBVIOUS
<1>4. members = <<>> /\ acting = <<>> /\ urls = <<>>
    OBVIOUS
<1> QED BY <1>1, <1>2, <1>3, <1>4 DEF TypeInv, Types, Places, NotFound

\* What the environment does.
LEMMA TypesEnvironment ==
    ASSUME TypeInv, Tick \/ EditServer \/ UrlChanges \/ DirectoryChanges
    PROVE  TypeInv'
<1> USE DirectoryAssumption DEF TypeInv, Types, Places, cacheVars, mailVars, verdictVars,
        actionVars, lookupVars, environment, history
<1>1. CASE Tick
    BY <1>1 DEF Tick
<1>2. CASE EditServer
    BY <1>2 DEF EditServer
<1>3. CASE UrlChanges
    BY <1>3 DEF UrlChanges
<1>4. CASE DirectoryChanges
    <2> PICK s \in Server, a \in Address : \E new \in Answer[s][a] :
              /\ directory' = [directory EXCEPT ![s][a] = new]
              /\ ever' = [ever EXCEPT ![s][a] = @ \cup {new}]
        BY ONLY <1>4 DEF DirectoryChanges
    <2> PICK new \in Answer[s][a] :
              /\ directory' = [directory EXCEPT ![s][a] = new]
              /\ ever' = [ever EXCEPT ![s][a] = @ \cup {new}]
        OBVIOUS
    <2>1. new \in Answers
        OBVIOUS
    <2>2. /\ directory' \in [Server -> [Address -> Answers]]
          /\ ever' \in [Server -> [Address -> SUBSET Answers]]
          /\ (\A t \in Server, b \in Address : directory[t][b] \in ever[t][b])'
        BY <2>1
    <2> QED BY <2>2, <1>4 DEF DirectoryChanges
<1> QED BY <1>1, <1>2, <1>3, <1>4

\* The domains of the cache.
LEMMA StoreDomains ==
    ASSUME Types, NEW s \in Server, NEW entry, Store(s, entry) \/ UNCHANGED cacheVars
    PROVE  DOMAIN cache' = Server /\ DOMAIN timeout' = Server
BY DEF Types, Store, cacheVars

LEMMA UseForSenderTypes ==
    ASSUME Types, NEW s \in Server, NEW entry, UseForSender(s, entry), stage = "sender"
    PROVE  /\ DOMAIN cache' = Server /\ DOMAIN timeout' = Server
           /\ stage' \in {"sender", "groups", "raised"}
           /\ found'.server \in Server \cup {None}
<1>1. CASE OneResult(entry.data)
    <2>1. DOMAIN cache' = Server /\ DOMAIN timeout' = Server
        BY <1>1, StoreDomains DEF UseForSender
    <2>2. CASE Unreadable(entry.data)
        BY <1>1, <2>1, <2>2 DEF UseForSender, Types
    <2>3. CASE ~Unreadable(entry.data)
        BY <1>1, <2>1, <2>3 DEF UseForSender, Types
    <2> QED BY <2>2, <2>3
<1>2. CASE ~OneResult(entry.data)
    BY <1>2 DEF UseForSender, Types, cacheVars
<1> QED BY <1>1, <1>2

\* The lookup of the sender and of his groups.
LEMMA TypesSender ==
    ASSUME TypeInv,
           BeginMail \/ SenderFromCache \/ SenderAnswered \/ SenderUnknown \/ AskGroup
           \/ GroupAnswered \/ Verdict
    PROVE  TypeInv'
<1> USE DirectoryAssumption DEF TypeInv, Types, Places, mailVars, verdictVars, actionVars,
        lookupVars, environment, history
<1>1. CASE BeginMail
    <2>1. \A a \in Address : TenantServers(a) \subseteq Server
        BY DEF TenantServers
    <2> QED BY <1>1, <2>1 DEF BeginMail, NotFound, cacheVars
<1>2. CASE SenderFromCache
    <2> PICK s \in left : left' = left \ {s} /\ \E entry \in Hits(s) : UseForSender(s, entry)
        BY <1>2 DEF SenderFromCache, Remaining
    <2>1. /\ DOMAIN cache' = Server /\ DOMAIN timeout' = Server
          /\ stage' \in {"sender", "groups", "raised"}
          /\ found'.server \in Server \cup {None}
        BY <1>2, UseForSenderTypes DEF SenderFromCache
    <2> QED BY <1>2, <2>1 DEF SenderFromCache
<1>3. CASE SenderAnswered
    <2>1. /\ DOMAIN cache' = Server /\ DOMAIN timeout' = Server
          /\ stage' \in {"sender", "groups", "raised"}
          /\ found'.server \in Server \cup {None}
        BY <1>3, UseForSenderTypes DEF SenderAnswered
    <2>2. <<>> \in Seq(Url)
        OBVIOUS
    <2> QED BY <1>3, <2>1, <2>2 DEF SenderAnswered
<1>4. CASE SenderUnknown
    BY <1>4 DEF SenderUnknown, cacheVars
<1>5. CASE AskGroup
    <2>0. PICK g \in GroupsToAsk : members' = Append(members, [group |-> g, member |-> FALSE])
        BY <1>5 DEF AskGroup
    <2>1. g \in Value /\ found.server \in Server
        BY DEF GroupsToAsk, InPlay, ConditionRows
    <2>2. /\ members' \in Seq([group : Value, member : BOOLEAN])
          /\ members' # <<>>
        <3>1. members \in Seq([group : Value, member : BOOLEAN])
            OBVIOUS
        <3>2. [group |-> g, member |-> FALSE] \in [group : Value, member : BOOLEAN]
            BY <2>1
        <3> QED BY ONLY <2>0, <3>1, <3>2, AppendProperties
    <2> QED BY <1>5, <2>1, <2>2 DEF AskGroup, cacheVars
<1>6. CASE GroupAnswered
    <2>1. members # <<>>
        BY <1>6 DEF GroupAnswered
    <2>2. Len(members) \in 1..Len(members)
        BY <2>1
    <2> DEFINE answer == directory[at][sender]
               yes == \E i \in DOMAIN answer.entries :
                          members[Len(members)].group \in answer.entries[i]["inchain"]
               last == [members[Len(members)] EXCEPT !.member = yes]
    <2>3. members' = [members EXCEPT ![Len(members)] = last]
        BY <1>6, <2>2 DEF GroupAnswered
    <2>4. last \in [group : Value, member : BOOLEAN]
        <3>1. yes \in BOOLEAN
            OBVIOUS
        <3>2. members[Len(members)] \in [group : Value, member : BOOLEAN]
            BY <2>2, ElementOfSeq
        <3> HIDE DEF yes
        <3> QED BY <3>1, <3>2
    <2> HIDE DEF last
    <2>5. members' \in Seq([group : Value, member : BOOLEAN])
        BY <2>2, <2>3, <2>4, ExceptSeq
    <2> QED BY <1>6, <2>5 DEF GroupAnswered, cacheVars
<1>7. CASE Verdict
    BY <1>7 DEF Verdict, cacheVars
<1> QED BY <1>1, <1>2, <1>3, <1>4, <1>5, <1>6, <1>7

\* The lookups for actions.
LEMMA TypesActions ==
    ASSUME TypeInv,
           BeginAction \/ ResolveFromMemo \/ BeginResolve \/ ResolveFromCache
           \/ ResolveRefused \/ ResolveAnswered \/ ResolveDone
    PROVE  TypeInv'
<1> USE DirectoryAssumption DEF TypeInv, Types, Places, mailVars, verdictVars, actionVars,
        lookupVars, environment, history
<1>1. CASE BeginAction
    <2>1. acting' \in Seq(Action)
        BY <1>1 DEF BeginAction
    <2> QED BY <1>1, <2>1 DEF BeginAction, cacheVars
<1>2. CASE ResolveFromMemo
    BY <1>2 DEF ResolveFromMemo, cacheVars
<1>3. CASE BeginResolve
    <2>1. Acting \in Action
        BY <1>3 DEF BeginResolve, Acting
    <2>2. ActionRow[Acting].servers \subseteq Server
        BY <2>1 DEF ActionRows
    <2> QED BY <1>3, <2>2 DEF BeginResolve, TenantServers, cacheVars
<1>4. CASE ResolveFromCache
    <2>1. UNCHANGED cacheVars /\ left' \subseteq Server /\ stage' \in {stage, "raised"}
        BY <1>4 DEF ResolveFromCache, AsCached, AddAttributes, Remaining
    <2> QED BY <1>4, <2>1 DEF ResolveFromCache, cacheVars
<1>5. CASE ResolveRefused \/ ResolveDone
    <2>1. /\ stage' = "actions" /\ left' = {} /\ at' = None
          /\ urls' = <<>>
        BY <1>5 DEF ResolveRefused, ResolveDone, Resolve
    <2>2. UNCHANGED <<now, environment, cacheVars, mailVars, verdictVars, prefetched, acting,
                      rows, history>>
        BY <1>5 DEF ResolveRefused, ResolveDone
    <2>3. Acting \in Action
        BY <1>5, ActingIs DEF ResolveRefused, ResolveDone
    <2>4. \A outcome \in memo' : outcome.action \in Action
        BY <1>5, <2>3 DEF ResolveRefused, ResolveDone, Resolve, Remember
    <2> QED BY <2>1, <2>2, <2>4 DEF cacheVars
<1>6. CASE ResolveAnswered
    <2>1. at \in Server
        BY <1>6 DEF ResolveAnswered
    <2>2. DOMAIN cache' = Server /\ DOMAIN timeout' = Server
        BY <1>6, <2>1, StoreDomains DEF ResolveAnswered, Fresh
    <2>3. stage' \in {stage, "raised"} /\ at' \in {at, None} /\ urls' \in {<<>>, Tail(urls)}
        BY <1>6 DEF ResolveAnswered, AddAttributes, NextUrls
    <2>4. urls' \in Seq(Url)
        <3>1. urls # <<>>
            BY <1>6 DEF ResolveAnswered
        <3>2. Tail(urls) \in Seq(Url)
            BY <3>1, HeadTailProperties
        <3>3. <<>> \in Seq(Url)
            BY EmptySeq
        <3> QED BY ONLY <2>3, <3>2, <3>3
    <2> QED BY <1>6, <2>2, <2>3, <2>4 DEF ResolveAnswered
<1> QED BY <1>1, <1>2, <1>3, <1>4, <1>5, <1>6

\* The steps both share, and the end of the mail and of the connection.
LEMMA TypesOther ==
    ASSUME TypeInv,
           NextServer \/ UrlFails \/ UrlRaises \/ UrlsExhausted \/ EndMail \/ NewConnection
           \/ UNCHANGED vars
    PROVE  TypeInv'
<1> USE DirectoryAssumption DEF TypeInv, Types, Places, mailVars, verdictVars, actionVars,
        lookupVars, environment, history, cacheVars
<1>1. CASE NextServer
    BY <1>1 DEF NextServer, Remaining
<1>2. CASE UrlFails
    <2>1. urls' \in Seq(Url)
        BY <1>2 DEF UrlFails, NextUrls
    <2> QED BY <1>2, <2>1 DEF UrlFails
<1>3. CASE UrlRaises \/ UrlsExhausted \/ EndMail
    BY <1>3 DEF UrlRaises, UrlsExhausted, EndMail
<1>4. CASE NewConnection
    BY <1>4 DEF NewConnection
<1>5. CASE UNCHANGED vars
    BY <1>5 DEF vars
<1> QED BY <1>1, <1>2, <1>3, <1>4, <1>5

LEMMA TypesStep == ASSUME TypeInv, [Next]_vars PROVE TypeInv'
BY TypesEnvironment, TypesSender, TypesActions, TypesOther DEF Next, Lookup

-----------------------------------------------------------------------------
(* The cache: every answer in it was given by its server for the address and  *)
(* the attributes of its key.                                                 *)

\* What a search for the attributes "ask" makes of an answer.
Delivered(answer, ask) ==
    [entries   |-> [i \in DOMAIN answer.entries |-> Shown(answer.entries[i], ask)],
     referrals |-> answer.referrals]

LEMMA DeliveredShape ==
    ASSUME NEW answer \in Answers, NEW ask
    PROVE  /\ Size(Delivered(answer, ask)) = Size(answer)
           /\ KnowsOne(answer) <=> /\ OneResult(Delivered(answer, ask))
                                   /\ ~Unreadable(Delivered(answer, ask))
           /\ KnowsOne(answer) =>
                  Delivered(answer, ask).entries[1] = Shown(answer.entries[1], ask)
<1> DEFINE n == Len(answer.entries)
           delivered == [i \in DOMAIN answer.entries |-> Shown(answer.entries[i], ask)]
<1>1. n \in Nat /\ DOMAIN answer.entries = 1..n /\ answer.referrals \in Nat
    BY DEF Answers
<1>2. Len(delivered) = n /\ delivered \in Seq({delivered[i] : i \in 1..n})
    BY <1>1
<1>3. delivered = <<>> <=> n = 0
    BY <1>1, <1>2, EmptySeq
<1>4. n = 1 => delivered[1] = Shown(answer.entries[1], ask)
    BY <1>1
<1>5. Delivered(answer, ask) = [entries |-> delivered, referrals |-> answer.referrals]
    BY DEF Delivered
<1> HIDE DEF delivered, n
<1>6. Size(Delivered(answer, ask)) = n + answer.referrals /\ Size(answer) = n + answer.referrals
    BY <1>2, <1>5 DEF Size, n
<1>7. /\ Delivered(answer, ask).entries = delivered
      /\ KnowsOne(answer) <=> n = 1 /\ answer.referrals = 0
      /\ Unreadable(Delivered(answer, ask)) <=> n = 0
      /\ OneResult(Delivered(answer, ask)) <=> n + answer.referrals = 1
    BY <1>3, <1>5, <1>6 DEF OneResult, Unreadable, KnowsOne, n
<1> QED BY <1>1, <1>4, <1>6, <1>7

EntryTrue(s, c) ==
    /\ c = [key |-> c.key, stamp |-> c.stamp, readAt |-> c.readAt, data |-> c.data]
    /\ c.key[1] \in Address
    /\ Size(c.data) > 0
    /\ \E answer \in ever[s][c.key[1]] : c.data = Delivered(answer, c.key[2])
    /\ c.key[2] \notin ConditionAsks => c.readAt = c.stamp

CacheTrue ==
    \A s \in Server : \A c \in cache[s] :
        EntryTrue(s, c) /\ \E r \in ServerRow : timeout[s] = r.timeout

LEMMA EverGrows ==
    ASSUME TypeInv, [Next]_vars
    PROVE  \A s \in Server, a \in Address : ever[s][a] \subseteq ever'[s][a]
<1>1. CASE DirectoryChanges
    BY <1>1 DEF TypeInv, Types, DirectoryChanges
<1>2. CASE ~DirectoryChanges
    <2>1. UNCHANGED ever
        BY <1>2 DEF Next, Lookup, vars, history, Tick, EditServer, UrlChanges, BeginMail,
              NextServer, UrlFails, UrlRaises, UrlsExhausted, SenderFromCache,
              SenderAnswered, SenderUnknown, AskGroup, GroupAnswered, Verdict,
              ResolveFromMemo, ResolveFromCache, ResolveRefused, ResolveAnswered,
              ResolveDone, BeginAction, BeginResolve, EndMail, NewConnection
    <2> QED BY <2>1
<1> QED BY <1>1, <1>2

LEMMA StoreKeeps ==
    ASSUME TypeInv, CacheTrue, UNCHANGED ever, NEW s \in Server, NEW entry,
           EntryTrue(s, entry), Store(s, entry) \/ UNCHANGED cacheVars
    PROVE  CacheTrue'
<1> USE DEF TypeInv, Types
<1>1. CASE rows[s].caching /\ Store(s, entry)
    <2>1. /\ \A t \in Server \ {s} : cache'[t] = cache[t] /\ timeout'[t] = timeout[t]
          /\ cache'[s] = {c \in cache[s] : c.key # entry.key} \cup {entry}
          /\ timeout'[s] = rows[s].timeout
        BY <1>1 DEF Store
    <2>2. rows[s] \in ServerRow
        OBVIOUS
    <2>3. \A t \in Server : \A c \in cache'[t] : EntryTrue(t, c)
        BY <2>1 DEF CacheTrue
    <2>4. \A t \in Server : \A c \in cache'[t] : EntryTrue(t, c)'
        BY <2>3 DEF EntryTrue
    <2>5. \A t \in Server : \A c \in cache'[t] : \E r \in ServerRow : timeout'[t] = r.timeout
        BY <2>1, <2>2 DEF CacheTrue
    <2> QED BY <2>4, <2>5 DEF CacheTrue
<1>2. CASE UNCHANGED cacheVars
    BY <1>2 DEF CacheTrue, EntryTrue, cacheVars
<1> QED BY <1>1, <1>2 DEF Store

LEMMA FreshIsTrue ==
    ASSUME TypeInv, NEW s \in Server, Size(Found(s, Ask(s))) > 0
    PROVE  LET entry == Fresh(s, Found(s, Ask(s)))
           IN  EntryTrue(s, entry) /\ [entry EXCEPT !.stamp = now] = entry
<1> DEFINE data == Found(s, Ask(s))
           entry == Fresh(s, data)
<1>1. entry = [key |-> <<sender, Ask(s)>>, stamp |-> now, readAt |-> now, data |-> data]
    BY DEF Fresh, CacheKey
<1>2. /\ data = Delivered(directory[s][sender], Ask(s))
      /\ directory[s][sender] \in ever[s][sender]
    BY DEF Found, Delivered, TypeInv, Types
<1>3. sender \in Address
    BY DEF TypeInv, Types
<1>4. entry.key[1] = sender /\ entry.key[2] = Ask(s) /\ entry.data = data
    BY <1>1
<1>5. entry.readAt = entry.stamp
    BY <1>1
<1>6. Size(entry.data) > 0
    BY <1>4
<1> HIDE DEF data
<1>7. entry = [key |-> entry.key, stamp |-> entry.stamp, readAt |-> entry.readAt,
               data |-> entry.data]
    BY <1>1
<1>8. [entry EXCEPT !.stamp = now] = entry
    BY <1>1
<1> HIDE DEF entry
<1>9. EntryTrue(s, entry)
    BY <1>2, <1>3, <1>4, <1>5, <1>6, <1>7 DEF EntryTrue
<1> QED BY <1>8, <1>9 DEF entry, data

LEMMA HitIsTrue ==
    ASSUME TypeInv, CacheTrue, NEW s \in Server, NEW entry \in Hits(s)
    PROVE  /\ EntryTrue(s, entry)
           /\ entry.key[2] = Ask(s)
           /\ \E answer \in ever[s][sender] : entry.data = Delivered(answer, Ask(s))
           /\ Size(entry.data) > 0
           /\ \E r \in ServerRow : now - entry.stamp <= r.timeout
<1>1. entry \in cache[s] /\ entry.key = <<sender, Ask(s)>> /\ now - entry.stamp <= timeout[s]
    BY DEF Hits, CacheKey
<1>2. entry.key[1] = sender /\ entry.key[2] = Ask(s)
    BY <1>1
<1> QED BY <1>1, <1>2 DEF CacheTrue, EntryTrue

\* Renewing the stamp of an answer to conditions.
LEMMA RenewedIsTrue ==
    ASSUME NEW s, NEW entry, EntryTrue(s, entry), entry.key[2] \in ConditionAsks
    PROVE  EntryTrue(s, [entry EXCEPT !.stamp = now])
<1> DEFINE new == [entry EXCEPT !.stamp = now]
<1>1. new = [key |-> entry.key, stamp |-> now, readAt |-> entry.readAt, data |-> entry.data]
    BY DEF EntryTrue
<1>2. new.key = entry.key /\ new.data = entry.data
    BY <1>1
<1>3. new = [key |-> new.key, stamp |-> new.stamp, readAt |-> new.readAt, data |-> new.data]
    BY <1>1
<1> HIDE DEF new
<1>4. EntryTrue(s, new)
    BY <1>2, <1>3 DEF EntryTrue
<1> QED BY <1>4 DEF new

LEMMA ConditionsAsk ==
    ASSUME TypeInv, NEW s \in Server, stage = "sender", checked # {}
    PROVE  Ask(s) \in ConditionAsks
<1>1. rows[s].ad \in BOOLEAN
    BY DirectoryAssumption DEF TypeInv, Types, ServerRows
<1>2. checked \in (SUBSET Req) \ {{}}
    BY DEF TypeInv, Types
<1>3. Ask(s) = AskedFor(checked, rows[s].ad)
    BY DEF Ask, InPlay, AskedFor
<1> QED BY <1>1, <1>2, <1>3 DEF ConditionAsks

LEMMA CacheStep == ASSUME TypeInv, CacheTrue, [Next]_vars PROVE CacheTrue'
<1>1. CASE UNCHANGED <<cache, timeout, ever>>
    BY <1>1 DEF CacheTrue, EntryTrue
<1>2. CASE DirectoryChanges
    <2>1. UNCHANGED cacheVars
        BY <1>2 DEF DirectoryChanges
    <2>2. ASSUME NEW s \in Server, NEW c \in cache[s] PROVE EntryTrue(s, c)'
        BY <2>2, EverGrows DEF CacheTrue, EntryTrue
    <2> QED BY <2>1, <2>2 DEF CacheTrue, cacheVars
<1>3. CASE SenderFromCache
    <2> PICK s \in left : \E entry \in Hits(s) : UseForSender(s, entry)
        BY <1>3 DEF SenderFromCache
    <2> PICK entry \in Hits(s) : UseForSender(s, entry)
        OBVIOUS
    <2> DEFINE new == [entry EXCEPT !.stamp = now]
    <2>1. s \in Server /\ stage = "sender" /\ checked # {} /\ UNCHANGED ever
        BY <1>3 DEF SenderFromCache, TypeInv, Types, Places, history
    <2>2. EntryTrue(s, new)
        BY <2>1, HitIsTrue, ConditionsAsk, RenewedIsTrue
    <2>3. Store(s, new) \/ UNCHANGED cacheVars
        BY DEF UseForSender
    <2> QED BY <2>1, <2>2, <2>3, StoreKeeps
<1>4. CASE SenderAnswered
    <2> DEFINE data == Found(at, Ask(at))
               entry == Fresh(at, data)
    <2>1. at \in Server /\ UNCHANGED ever /\ UseForSender(at, entry)
        BY <1>4 DEF SenderAnswered, TypeInv, Types, history
    <2>2. entry.data = data
        BY DEF Fresh
    <2>3. CASE OneResult(data)
        <3>1. Size(data) > 0
            BY <2>3 DEF OneResult
        <3>2. EntryTrue(at, entry) /\ [entry EXCEPT !.stamp = now] = entry
            BY <2>1, <3>1, FreshIsTrue
        <3>3. Store(at, entry)
            BY <2>1, <2>2, <2>3, <3>2 DEF UseForSender
        <3> QED BY <2>1, <3>2, <3>3, StoreKeeps
    <2>4. CASE ~OneResult(data)
        BY <2>1, <2>2, <2>4, <1>1 DEF UseForSender, cacheVars
    <2> QED BY <2>3, <2>4
<1>5. CASE ResolveAnswered
    <2> DEFINE data == Found(at, Ask(at))
               entry == Fresh(at, data)
    <2>1. at \in Server /\ UNCHANGED ever
        BY <1>5 DEF ResolveAnswered, TypeInv, Types, history
    <2>2. CASE Delivers(data)
        BY <1>5, <2>1, <2>2, FreshIsTrue, StoreKeeps DEF ResolveAnswered, Delivers
    <2>3. CASE ~Delivers(data)
        BY <1>5, <2>1, <2>3, <1>1 DEF ResolveAnswered, cacheVars
    <2> QED BY <2>2, <2>3
<1>6. CASE ResolveFromCache
    BY <1>6, <1>1 DEF ResolveFromCache, AsCached, cacheVars, history
<1>7. CASE NewConnection
    BY <1>7 DEF NewConnection, CacheTrue
<1>8. \/ UNCHANGED <<cache, timeout, ever>>
      \/ DirectoryChanges \/ SenderFromCache \/ SenderAnswered \/ ResolveAnswered
      \/ ResolveFromCache \/ NewConnection
    BY DEF Next, Lookup, vars, cacheVars, history, Tick, EditServer, UrlChanges, BeginMail,
           NextServer, UrlFails, UrlRaises, UrlsExhausted, SenderUnknown, AskGroup,
           GroupAnswered, Verdict, ResolveFromMemo, ResolveRefused, ResolveDone,
           BeginAction, BeginResolve, EndMail
<1> QED BY <1>1, <1>2, <1>3, <1>4, <1>5, <1>6, <1>7, <1>8

\* What was taken from the cache last: for attributes that no conditions ask
\* for, within a timeout.
LEMMA FreshStep ==
    ASSUME TypeInv, CacheTrue, SignatureDataFresh, [Next]_vars
    PROVE  SignatureDataFresh'
<1>1. CASE UNCHANGED taken
    BY <1>1 DEF SignatureDataFresh
<1>2. CASE BeginMail
    <2> PICK r \in ServerRow : TRUE
        BY DirectoryAssumption
    <2>1. 0 <= r.timeout
        BY DirectoryAssumption DEF ServerRows
    <2> QED BY <1>2, <2>1 DEF BeginMail, NothingTaken, SignatureDataFresh, InTime
<1>3. CASE SenderFromCache
    <2> PICK s \in left : \E entry \in Hits(s) :
                               taken' = [age |-> now - entry.readAt, ask |-> Ask(s)]
        BY <1>3 DEF SenderFromCache
    <2>1. s \in Server /\ stage = "sender" /\ checked # {}
        BY <1>3 DEF SenderFromCache, TypeInv, Types, Places
    <2>2. taken'.ask \in ConditionAsks
        BY <2>1, ConditionsAsk
    <2> QED BY <2>2 DEF SignatureDataFresh
<1>4. CASE ResolveFromCache
    <2> PICK s \in left : \E entry \in Hits(s) :
                               taken' = [age |-> now - entry.readAt, ask |-> Ask(s)]
        BY <1>4 DEF ResolveFromCache
    <2> PICK entry \in Hits(s) : taken' = [age |-> now - entry.readAt, ask |-> Ask(s)]
        OBVIOUS
    <2>1. s \in Server
        BY DEF TypeInv, Types
    <2>2. /\ Ask(s) \notin ConditionAsks => entry.readAt = entry.stamp
          /\ \E r \in ServerRow : now - entry.stamp <= r.timeout
        BY <2>1, HitIsTrue DEF EntryTrue
    <2>3. taken'.age = now - entry.readAt /\ taken'.ask = Ask(s)
        OBVIOUS
    <2> QED BY <2>2, <2>3 DEF SignatureDataFresh, InTime
<1>5. UNCHANGED taken \/ BeginMail \/ SenderFromCache \/ ResolveFromCache
    BY DEF Next, Lookup, vars, Tick, EditServer, UrlChanges, DirectoryChanges,
           NextServer, UrlFails, UrlRaises, UrlsExhausted, SenderAnswered, SenderUnknown,
           AskGroup, GroupAnswered, Verdict, ResolveFromMemo, ResolveRefused,
           ResolveAnswered, ResolveDone, BeginAction, BeginResolve, EndMail, NewConnection
<1> QED BY <1>1, <1>2, <1>3, <1>4, <1>5

LEMMA CacheInitially == Init => CacheTrue /\ SignatureDataFresh
<1> SUFFICES ASSUME Init PROVE CacheTrue /\ SignatureDataFresh
    OBVIOUS
<1>1. CacheTrue
    BY DEF Init, CacheTrue
<1> PICK r \in ServerRow : TRUE
    BY DirectoryAssumption
<1>2. 0 <= r.timeout
    BY DirectoryAssumption DEF ServerRows
<1> QED BY <1>1, <1>2 DEF Init, NothingTaken, SignatureDataFresh, InTime

\* An answer that an action takes from the cache, and no condition asks for,
\* is no older than a timeout, for any timeouts, edits of servers and mails
\* that share the cache (QueryCache.get()).
THEOREM SignatureDataAlwaysFresh == Spec => []SignatureDataFresh
<1> DEFINE I == TypeInv /\ CacheTrue /\ SignatureDataFresh
<1>1. Init => I
    BY TypesInitially, CacheInitially
<1>2. I /\ [Next]_vars => I'
    BY TypesStep, CacheStep, FreshStep
<1> QED BY <1>1, <1>2, PTL DEF Spec

LEMMA CacheInvariant == Spec => [](TypeInv /\ CacheTrue)
<1>1. Init => TypeInv /\ CacheTrue
    BY TypesInitially, CacheInitially
<1>2. TypeInv /\ CacheTrue /\ [Next]_vars => (TypeInv /\ CacheTrue)'
    BY TypesStep, CacheStep
<1> QED BY <1>1, <1>2, PTL DEF Spec

-----------------------------------------------------------------------------
(* The sender: what was found, and the groups asked for, come from one answer *)
(* about him and from the groups of the same server.                          *)

\* What the conditions of a mail that goes on rest on.
Grounds ==
    \E s \in Server : \E answer \in ever[s][sender] :
        /\ KnowsOne(answer)
        /\ \A r \in checked \ failed : \A c \in Conditions[r] :
              Meets(s, answer.entries[1], c)

FoundTrue ==
    found.server # None =>
        \E answer \in ever[found.server][sender] :
            /\ KnowsOne(answer)
            /\ \A n \in DOMAIN found.values : found.values[n] = answer.entries[1][n]

MembersTrue ==
    \A i \in DOMAIN members : members[i].member =>
        /\ found.server # None
        /\ \E later \in ever[found.server][sender] : \E j \in DOMAIN later.entries :
              members[i].group \in later.entries[j]["inchain"]

Grounded ==
    /\ stage = "sender" => found = NotFound /\ members = <<>>
    /\ stage = "groups" => FoundTrue /\ MembersTrue
    /\ stage \in {"actions", "resolving"} /\ checked # failed => Grounds

LEMMA FoundByUse ==
    ASSUME TypeInv, CacheTrue, NEW s \in Server, NEW entry, NEW ask,
           \E answer \in ever[s][sender] : entry.data = Delivered(answer, ask),
           UseForSender(s, entry), UNCHANGED <<ever, sender>>, stage = "sender",
           found = NotFound
    PROVE  /\ stage' \in {"sender", "groups", "raised"}
           /\ stage' = "sender" => found' = found
           /\ stage' = "groups" => FoundTrue'
<1> PICK answer \in ever[s][sender] : entry.data = Delivered(answer, ask)
    OBVIOUS
<1>1. answer \in Answers
    BY DEF TypeInv, Types
<1>2. CASE OneResult(entry.data) /\ ~Unreadable(entry.data)
    <2>1. KnowsOne(answer) /\ entry.data.entries[1] = Shown(answer.entries[1], ask)
        BY <1>1, <1>2, DeliveredShape
    <2>2. /\ found' = [server |-> s, values |-> Shown(answer.entries[1], ask)]
          /\ stage' = "groups"
        BY <1>2, <2>1 DEF UseForSender
    <2>3. \A n \in DOMAIN found'.values : found'.values[n] = answer.entries[1][n]
        BY <2>2 DEF Shown
    <2>4. found'.server = s
        BY <2>2
    <2> QED BY <2>1, <2>2, <2>3, <2>4 DEF FoundTrue
<1>3. CASE ~(OneResult(entry.data) /\ ~Unreadable(entry.data))
    BY <1>3 DEF UseForSender
<1> QED BY <1>2, <1>3

\* A condition that holds is met by the entry found, or by a group asked for.
LEMMA HoldsMeets ==
    ASSUME TypeInv, FoundTrue, MembersTrue, found.server # None,
           NEW answer \in ever[found.server][sender],
           \A n \in DOMAIN found.values : found.values[n] = answer.entries[1][n],
           NEW c, Holds(c)
    PROVE  Meets(found.server, answer.entries[1], c)
<1>1. CASE /\ c.kind = "attribute"
           /\ c.attribute \in DOMAIN found.values
           /\ c.pattern \cap found.values[c.attribute] # {}
    BY <1>1 DEF Meets
<1>2. CASE /\ c.kind = "group"
           /\ "memberof" \in DOMAIN found.values
           /\ c.group \in found.values["memberof"]
    BY <1>2 DEF Meets
<1>3. CASE /\ c.kind = "group"
           /\ \E i \in DOMAIN members : members[i].group = c.group /\ members[i].member
    BY <1>3 DEF Meets, MembersTrue
<1> QED BY <1>1, <1>2, <1>3 DEF Holds

LEMMA VerdictGrounds ==
    ASSUME TypeInv, Grounded, Verdict
    PROVE  Grounded'
<1>1. /\ stage' = "actions" /\ FoundTrue /\ MembersTrue
      /\ failed' = {r \in checked : \E c \in Conditions[r] : ~Holds(c)}
      /\ UNCHANGED <<ever, sender, checked, found>>
    BY DEF Verdict, Grounded, mailVars, history
<1> SUFFICES ASSUME checked # failed' PROVE Grounds'
    BY <1>1 DEF Grounded
<1> PICK r \in checked : \A c \in Conditions[r] : Holds(c)
    BY <1>1
<1>2. Conditions[r] # {}
    BY DirectoryAssumption DEF TypeInv, Types
<1>3. found.server # None
    BY <1>2 DEF Holds
<1> PICK answer \in ever[found.server][sender] :
          /\ KnowsOne(answer)
          /\ \A n \in DOMAIN found.values : found.values[n] = answer.entries[1][n]
    BY <1>1, <1>3 DEF FoundTrue
<1>4. ASSUME NEW q \in checked \ failed', NEW c \in Conditions[q]
      PROVE  Meets(found.server, answer.entries[1], c)'
    <2>1. Holds(c)
        BY <1>1, <1>4
    <2>2. Meets(found.server, answer.entries[1], c)
        BY <1>1, <1>3, <2>1, HoldsMeets
    <2> QED BY <1>1, <2>2 DEF Meets
<1>5. found.server \in Server
    BY <1>3 DEF TypeInv, Types
<1> QED BY <1>1, <1>4, <1>5 DEF Grounds

\* More answers leave what rests on earlier ones.
LEMMA GroundedGrows ==
    ASSUME TypeInv, Grounded, [Next]_vars,
           UNCHANGED <<sender, checked, found, members, failed>>,
           stage' = stage \/ stage' \in {"idle", "raised"}
           \/ (stage = "actions" /\ stage' = "resolving")
           \/ (stage = "resolving" /\ stage' = "actions")
           \/ (stage = "sender" /\ stage' = "groups")
    PROVE  Grounded'
<1>1. \A s \in Server : ever[s][sender] \subseteq ever'[s][sender]
    BY EverGrows DEF TypeInv, Types
<1>2. Grounds => Grounds'
    BY <1>1 DEF Grounds, Meets
<1>3. FoundTrue => FoundTrue'
    BY <1>1 DEF FoundTrue, TypeInv, Types
<1>4. CASE stage = "sender"
    <2>1. found' = NotFound /\ members' = <<>>
        BY <1>4 DEF Grounded
    <2>2. FoundTrue' /\ MembersTrue'
        BY <2>1 DEF FoundTrue, MembersTrue, NotFound
    <2> QED BY <1>4, <2>1, <2>2 DEF Grounded
<1>5. CASE stage = "groups"
    <2>1. MembersTrue'
        <3>1. CASE found.server = None
            BY <1>5, <3>1 DEF Grounded, MembersTrue
        <3>2. CASE found.server # None
            BY <1>1, <1>5, <3>2 DEF Grounded, MembersTrue, TypeInv, Types
        <3> QED BY <3>1, <3>2
    <2> QED BY <1>3, <1>5, <2>1 DEF Grounded
<1>6. CASE stage \notin {"sender", "groups"}
    BY <1>2, <1>6 DEF Grounded
<1> QED BY <1>4, <1>5, <1>6

LEMMA GroundedSender ==
    ASSUME TypeInv, CacheTrue, Grounded, SenderFromCache \/ SenderAnswered
    PROVE  Grounded'
<1>1. ASSUME stage' \in {"sender", "groups", "raised"},
             stage' = "sender" => found' = found,
             stage' = "groups" => FoundTrue',
             found = NotFound, members = <<>>, UNCHANGED members
      PROVE  Grounded'
    BY <1>1 DEF Grounded, MembersTrue
<1>2. CASE SenderFromCache
    <2>1. /\ stage = "sender" /\ found = NotFound /\ members = <<>>
          /\ UNCHANGED <<ever, sender, members>>
        BY <1>2 DEF SenderFromCache, Grounded, mailVars, history
    <2> PICK s \in left : \E entry \in Hits(s) : UseForSender(s, entry)
        BY <1>2 DEF SenderFromCache
    <2> PICK entry \in Hits(s) : UseForSender(s, entry)
        OBVIOUS
    <2>2. s \in Server
        BY DEF TypeInv, Types
    <2>3. \E answer \in ever[s][sender] : entry.data = Delivered(answer, Ask(s))
        BY <2>2, HitIsTrue
    <2> QED BY <1>1, <2>1, <2>2, <2>3, FoundByUse
<1>3. CASE SenderAnswered
    <2> DEFINE entry == Fresh(at, Found(at, Ask(at)))
    <2>1. /\ stage = "sender" /\ found = NotFound /\ members = <<>>
          /\ UNCHANGED <<ever, sender, members>>
          /\ at \in Server /\ UseForSender(at, entry)
        BY <1>3 DEF SenderAnswered, Grounded, mailVars, history, TypeInv, Types
    <2>2. entry.data = Delivered(directory[at][sender], Ask(at))
        BY DEF Fresh, Found, Delivered
    <2>3. directory[at][sender] \in ever[at][sender]
        BY <2>1 DEF TypeInv, Types
    <2> HIDE DEF entry
    <2> QED BY <1>1, <2>1, <2>2, <2>3, FoundByUse
<1> QED BY <1>2, <1>3

LEMMA GroundedGroups ==
    ASSUME TypeInv, Grounded, AskGroup \/ GroupAnswered
    PROVE  Grounded'
<1>1. /\ stage = "groups" /\ FoundTrue /\ MembersTrue
      /\ UNCHANGED <<ever, sender, found, stage, directory>>
    BY DEF AskGroup, GroupAnswered, Grounded, mailVars, history, environment
<1>2. FoundTrue'
    BY <1>1 DEF FoundTrue
<1> SUFFICES ASSUME NEW i \in DOMAIN members', members'[i].member
             PROVE  /\ found.server # None
                    /\ \E later \in ever[found.server][sender] : \E j \in DOMAIN later.entries :
                          members'[i].group \in later.entries[j]["inchain"]
    BY <1>1, <1>2 DEF Grounded, MembersTrue
<1>3. members \in Seq([group : Value, member : BOOLEAN])
    BY DEF TypeInv, Types
<1>4. CASE AskGroup
    <2> PICK g \in GroupsToAsk : members' = Append(members, [group |-> g, member |-> FALSE])
        BY <1>4 DEF AskGroup
    <2>1. i \in DOMAIN members /\ members'[i] = members[i]
        BY <1>3
    <2> QED BY <1>1, <2>1 DEF MembersTrue
<1>5. CASE GroupAnswered
    <2> DEFINE answer == directory[at][sender]
               last == Len(members)
               yes == \E j \in DOMAIN answer.entries :
                          members[last].group \in answer.entries[j]["inchain"]
    <2>1. /\ members' = [members EXCEPT ![last].member = yes]
          /\ at = found.server /\ at # None
        BY <1>5 DEF GroupAnswered, TypeInv, Places
    <2>2. at \in Server
        BY <2>1 DEF TypeInv, Types
    <2>3. answer \in ever[found.server][sender]
        BY <2>1, <2>2 DEF TypeInv, Types
    <2>4. i \in DOMAIN members
        BY <2>1
    <2>5. members[i] \in [group : Value, member : BOOLEAN]
        BY ONLY <1>3, <2>4, LenProperties, ElementOfSeq
    <2>6. CASE i = last
        <3>1. members'[i].member = yes /\ members'[i].group = members[last].group
            BY <2>1, <2>4, <2>5, <2>6
        <3>2. yes
            BY <3>1
        <3> QED BY <2>1, <2>3, <3>1, <3>2
    <2>7. CASE i # last
        <3>1. members'[i] = members[i]
            BY <2>1, <2>4, <2>7
        <3> QED BY <1>1, <2>4, <3>1 DEF MembersTrue
    <2> QED BY <2>6, <2>7
<1> QED BY <1>4, <1>5

LEMMA GroundedStep ==
    ASSUME TypeInv, CacheTrue, Grounded, [Next]_vars
    PROVE  Grounded'
<1>1. CASE BeginMail
    BY <1>1 DEF BeginMail, Grounded
<1>2. CASE SenderFromCache \/ SenderAnswered
    BY <1>2, GroundedSender
<1>3. CASE AskGroup \/ GroupAnswered
    BY <1>3, GroundedGroups
<1>4. CASE Verdict
    BY <1>4, VerdictGrounds
<1>5. CASE \/ Tick \/ EditServer \/ UrlChanges \/ DirectoryChanges \/ UNCHANGED vars
           \/ NextServer \/ UrlFails \/ UrlRaises \/ UrlsExhausted \/ SenderUnknown
    <2>1. UNCHANGED <<sender, checked, found, members, failed>>
        BY <1>5 DEF vars, mailVars, verdictVars, Tick, EditServer, UrlChanges,
              DirectoryChanges, NextServer, UrlFails, UrlRaises, UrlsExhausted, SenderUnknown
    <2>2. \/ stage' = stage \/ stage' = "raised"
          \/ stage = "sender" /\ stage' = "groups"
        BY <1>5 DEF vars, Tick, EditServer, UrlChanges,
              DirectoryChanges, NextServer, UrlFails, UrlRaises, UrlsExhausted, SenderUnknown
    <2> QED BY <2>1, <2>2, GroundedGrows
<1>6. CASE \/ BeginAction \/ ResolveFromMemo \/ BeginResolve \/ ResolveFromCache
           \/ ResolveRefused \/ ResolveAnswered \/ ResolveDone \/ EndMail \/ NewConnection
    <2>1. UNCHANGED <<sender, checked, found, members, failed>>
        BY <1>6 DEF mailVars, verdictVars, BeginAction, ResolveFromMemo, BeginResolve,
              ResolveFromCache, ResolveRefused, ResolveAnswered, ResolveDone, EndMail,
              NewConnection
    <2>2. \/ stage' = stage \/ stage' \in {"idle", "raised"}
          \/ stage = "actions" /\ stage' = "resolving"
          \/ stage = "resolving" /\ stage' = "actions"
        BY <1>6 DEF BeginAction, ResolveFromMemo, BeginResolve, ResolveFromCache,
              ResolveRefused, ResolveAnswered, ResolveDone, EndMail, NewConnection,
              Resolve, AddAttributes
    <2> QED BY <2>1, <2>2, GroundedGrows
<1> QED BY <1>1, <1>2, <1>3, <1>4, <1>5, <1>6 DEF Next, Lookup

\* Whatever servers, URLs, entries and caches do: the requirements that count
\* as met are met by one answer of one server, in which the sender was the only
\* entry (_failed_directory_conditions(), _sender_entry()).
THEOREM VerdictsAlwaysGrounded == Spec => []GroundedVerdicts
<1> DEFINE I == TypeInv /\ CacheTrue /\ Grounded
<1>1. Init => Grounded
    BY DEF Init, Grounded
<1>2. I /\ [Next]_vars => I'
    BY TypesStep, CacheStep, GroundedStep
<1>3. Grounded => GroundedVerdicts
    BY DEF Grounded, Grounds, GroundedVerdicts
<1> QED BY <1>1, <1>2, <1>3, TypesInitially, CacheInitially, PTL DEF Spec

-----------------------------------------------------------------------------
(* What actions are given. *)

\* Attributes of entries found for the sender, and asked for.
GivenTrue(given, x) ==
    \A n \in DOMAIN given :
        /\ n \in ActionAsk(x) \/ ActionAsk(x) = {"*"}
        /\ \E s \in Server : \E answer \in ever[s][sender] :
              KnowsOne(answer) /\ answer.entries[1][n] = given[n]

\* All that one server has on him.
GivenWhole(given, x) ==
    \E s \in Server : \E answer \in ever[s][sender] :
        /\ Len(answer.entries) + answer.referrals > 0
        /\ KnowsOne(answer) =>
              DOMAIN Shown(answer.entries[1], ActionAsk(x)) \subseteq DOMAIN given

OutcomesTrue ==
    \A p \in memo : /\ GivenTrue(p.attributes, p.action)
                    /\ p.resolved => GivenWhole(p.attributes, p.action)

DataTrue ==
    /\ OutcomesTrue
    /\ stage = "resolving" => /\ GivenTrue(attributes, Acting)
                              /\ resolved => GivenWhole(attributes, Acting)

LEMMA GivenGrows ==
    ASSUME TypeInv, [Next]_vars, UNCHANGED sender, NEW given, NEW x
    PROVE  /\ GivenTrue(given, x) => GivenTrue(given, x)'
           /\ GivenWhole(given, x) => GivenWhole(given, x)'
BY EverGrows DEF GivenTrue, GivenWhole, TypeInv, Types

\* An answer that is one entry adds true attributes, any makes them whole.
LEMMA AddedTrue ==
    ASSUME TypeInv, DataTrue, stage = "resolving", UNCHANGED <<sender, acting, ever>>,
           NEW s \in Server, NEW data, Size(data) > 0, AddAttributes(data),
           \E answer \in ever[s][sender] : data = Delivered(answer, ActionAsk(Acting))
    PROVE  \/ stage' = "raised"
           \/ /\ stage' = stage
              /\ GivenTrue(attributes', Acting) /\ GivenWhole(attributes', Acting)
<1> DEFINE ask == ActionAsk(Acting)
<1> PICK answer \in ever[s][sender] : data = Delivered(answer, ask)
    OBVIOUS
<1>1. answer \in Answers
    BY DEF TypeInv, Types
<1>2. Len(answer.entries) + answer.referrals > 0
    BY <1>1, DeliveredShape DEF Size
<1>3. GivenTrue(attributes, Acting)
    BY DEF DataTrue
<1>4. CASE KnowsOne(answer)
    <2> DEFINE entry == Shown(answer.entries[1], ask)
    <2>1. OneResult(data) /\ ~Unreadable(data) /\ data.entries[1] = entry
        BY <1>1, <1>4, DeliveredShape
    <2>2. attributes' = Update(attributes, entry) /\ stage' = stage
        BY <2>1 DEF AddAttributes
    <2>3. \A n \in DOMAIN entry : (n \in ask \/ ask = {"*"}) /\ entry[n] = answer.entries[1][n]
        BY DEF Shown
    <2> HIDE DEF entry
    <2>4. /\ DOMAIN attributes' = DOMAIN attributes \cup DOMAIN entry
          /\ \A n \in DOMAIN attributes' :
                attributes'[n] = IF n \in DOMAIN entry THEN entry[n] ELSE attributes[n]
        BY <2>2 DEF Update
    <2>5. GivenTrue(attributes', Acting)
        BY <1>3, <1>4, <2>3, <2>4 DEF GivenTrue
    <2>6. GivenWhole(attributes', Acting)
        BY <1>2, <2>4 DEF GivenWhole, entry
    <2> QED BY <2>2, <2>5, <2>6
<1>5. CASE ~KnowsOne(answer)
    <2>1. attributes' = attributes /\ stage' \in {stage, "raised"}
        BY <1>1, <1>5, DeliveredShape DEF AddAttributes
    <2> QED BY <1>2, <1>3, <1>5, <2>1 DEF GivenWhole
<1> QED BY <1>4, <1>5

LEMMA ResolvedTrue ==
    ASSUME TypeInv, DataTrue, [Next]_vars, UNCHANGED sender, stage = "resolving",
           NEW ok, ok => resolved, Resolve(ok)
    PROVE  DataTrue'
<1> DEFINE outcome == [action |-> Acting, resolved |-> ok, attributes |-> attributes]
<1>1. memo' = memo \cup {outcome} /\ stage' = "actions"
    BY DEF Resolve, Remember
<1>2. /\ GivenTrue(outcome.attributes, outcome.action)
      /\ outcome.resolved => GivenWhole(outcome.attributes, outcome.action)
    BY DEF DataTrue
<1> HIDE DEF outcome
<1> QED BY <1>1, <1>2, GivenGrows DEF DataTrue, OutcomesTrue

LEMMA DataLookup ==
    ASSUME TypeInv, CacheTrue, DataTrue, [Next]_vars, ResolveFromCache \/ ResolveAnswered
    PROVE  DataTrue'
<1>1. /\ stage = "resolving" /\ UNCHANGED <<memo, sender, acting, ever>>
      /\ \A s \in Server : Ask(s) = ActionAsk(Acting)
    BY DEF ResolveFromCache, ResolveAnswered, actionVars, mailVars, history, Ask
<1>2. OutcomesTrue'
    BY <1>1, GivenGrows DEF DataTrue, OutcomesTrue
<1>3. ASSUME NEW s \in Server, NEW data, Size(data) > 0, AddAttributes(data),
             \E answer \in ever[s][sender] : data = Delivered(answer, ActionAsk(Acting))
      PROVE  DataTrue'
    <2>1. \/ stage' = "raised"
          \/ GivenTrue(attributes', Acting) /\ GivenWhole(attributes', Acting)
        BY <1>1, <1>3, AddedTrue
    <2> QED BY <1>1, <1>2, <2>1 DEF DataTrue, GivenTrue, GivenWhole, Acting
<1>4. CASE ResolveFromCache
    <2> PICK s \in left : \E entry \in Hits(s) : AddAttributes(entry.data)
        BY <1>4 DEF ResolveFromCache
    <2> PICK entry \in Hits(s) : AddAttributes(entry.data)
        OBVIOUS
    <2>1. s \in Server
        BY DEF TypeInv, Types
    <2> QED BY <1>1, <1>3, <2>1, HitIsTrue
<1>5. CASE ResolveAnswered
    <2> DEFINE data == Found(at, Ask(at))
    <2>1. at \in Server
        BY <1>5 DEF ResolveAnswered, TypeInv, Types
    <2>2. /\ data = Delivered(directory[at][sender], ActionAsk(Acting))
          /\ directory[at][sender] \in ever[at][sender]
        BY <1>1, <2>1 DEF Found, Delivered, TypeInv, Types
    <2>3. CASE Delivers(data)
        <3>1. AddAttributes(data) /\ Size(data) > 0
            BY <1>5, <2>3 DEF ResolveAnswered, Delivers
        <3> QED BY <1>3, <2>1, <2>2, <3>1
    <2>4. CASE ~Delivers(data)
        <3>1. UNCHANGED <<stage, attributes, resolved>>
            BY <1>5, <2>4 DEF ResolveAnswered
        <3> QED BY <1>1, <1>2, <3>1, GivenGrows DEF DataTrue, Acting
    <2> QED BY <2>3, <2>4
<1> QED BY <1>4, <1>5

LEMMA DataStep ==
    ASSUME TypeInv, CacheTrue, DataTrue, [Next]_vars
    PROVE  DataTrue'
<1>1. CASE BeginMail
    BY <1>1 DEF BeginMail, DataTrue, OutcomesTrue
<1>2. CASE UNCHANGED sender /\ UNCHANGED memo /\ stage' # "resolving"
    BY <1>2, GivenGrows DEF DataTrue, OutcomesTrue
<1>3. CASE UNCHANGED <<sender, memo, acting, stage, resolved, attributes>>
    BY <1>3, GivenGrows DEF DataTrue, OutcomesTrue, Acting
<1>4. CASE BeginResolve
    <2>1. UNCHANGED <<sender, memo, acting>> /\ attributes' = <<>> /\ resolved' = FALSE
        BY <1>4 DEF BeginResolve, mailVars, actionVars
    <2>2. OutcomesTrue'
        BY <2>1, GivenGrows DEF DataTrue, OutcomesTrue
    <2>3. GivenTrue(attributes, Acting)'
        BY <2>1 DEF GivenTrue
    <2> QED BY <2>1, <2>2, <2>3 DEF DataTrue
<1>5. CASE ResolveFromCache \/ ResolveAnswered
    BY <1>5, DataLookup
<1>6. CASE ResolveRefused
    BY <1>6, ResolvedTrue DEF ResolveRefused, mailVars
<1>7. CASE ResolveDone
    BY <1>7, ResolvedTrue DEF ResolveDone, mailVars
<1>8. \/ BeginMail \/ BeginResolve \/ ResolveFromCache \/ ResolveAnswered
      \/ ResolveRefused \/ ResolveDone
      \/ UNCHANGED sender /\ UNCHANGED memo /\ stage' # "resolving"
      \/ UNCHANGED <<sender, memo, acting, stage, resolved, attributes>>
    BY DEF Next, Lookup, vars, mailVars, actionVars, resultVars, Tick, EditServer, UrlChanges,
           DirectoryChanges, NextServer, UrlFails, UrlRaises, UrlsExhausted, SenderFromCache,
           SenderAnswered, SenderUnknown, UseForSender, AskGroup, GroupAnswered, Verdict,
           ResolveFromMemo, BeginAction, EndMail, NewConnection
<1> QED BY <1>1, <1>2, <1>3, <1>4, <1>5, <1>6, <1>7, <1>8

\* Every attribute that a part of a mail is given was asked for by its action
\* and found for its sender, and an action that goes on was given all that one
\* server has: for any cache that it shares with conditions, other actions and
\* other mails (_resolve_sender(), cache_key).
THEOREM SignatureDataAlwaysTrue == Spec => []SignatureDataTrue
<1> DEFINE I == TypeInv /\ CacheTrue /\ DataTrue /\ Memoised
<1>1. Init => DataTrue
    BY DEF Init, DataTrue, OutcomesTrue
<1>2. I /\ [Next]_vars => I'
    BY TypesStep, CacheStep, DataStep, MemoisedKept
<1>3. I => SignatureDataTrue
    <2> SUFFICES ASSUME I, NEW p \in used
                 PROVE  /\ GivenTrue(p.attributes, p.action)
                        /\ p.resolved => GivenWhole(p.attributes, p.action)
        BY DEF SignatureDataTrue, GivenTrue, GivenWhole
    <2> QED BY DEF Memoised, DataTrue, OutcomesTrue
<1> QED BY <1>1, <1>2, <1>3, TypesInitially, CacheInitially, MemoisedInitially, PTL DEF Spec

-----------------------------------------------------------------------------
(* A reachable server that knows the sender is still to be asked, is being    *)
(* asked by a URL that works, or has delivered.                               *)

\* Server s knows the sender and can be reached.
Willing(s) == Reachable(s) /\ KnowsOne(directory[s][sender])

\* Of s, an answer of several entries was taken from the cache.
Several(s) == \E c \in cache[s] : c.key[1] = sender /\ Size(c.data) > 1

\* What has not changed since the mail began is as the lookups have it.
AsBegun ==
    /\ \A u \in steady \cap Url : state[u] = "up"
    /\ stage \in {"sender", "resolving"} => \A s \in steady \cap Server : rows[s] = row[s]
    /\ stage \in {"actions", "resolving"} =>
          \A s \in steady \cap Server : prefetched[s] = row[s]

\* The steady URLs of the server being searched are still to be tried.
UrlsLeft ==
    stage \in {"sender", "resolving"} /\ at # None /\ Willing(at) =>
        \A i \in DOMAIN UrlsOf[at] : UrlsOf[at][i] \in steady =>
            \E j \in DOMAIN urls : urls[j] = UrlsOf[at][i]

SenderAsked ==
    /\ \/ stage \in {"sender", "groups"}
       \/ stage = "actions" /\ acting = <<>>
    /\ checked # {}
    /\ found = NotFound
    => \A s \in TenantServers(sender) : Willing(s) =>
          \/ stage = "sender" /\ (s \in left \/ at = s)
          \/ Several(s)

ActionsAsked ==
    /\ stage \in {"sender", "groups"} => memo = {}
    /\ stage \in {"actions", "resolving"} =>
          \A o \in memo : ~o.resolved /\ ~ActionRow[o.action].fail =>
              \A s \in ServersFor(o.action) : ~Willing(s)
    /\ stage = "resolving" /\ ~resolved /\ ~ActionRow[Acting].fail =>
          \A s \in ServersFor(Acting) : Willing(s) => s \in left \/ at = s

Asked == AsBegun /\ UrlsLeft /\ SenderAsked /\ ActionsAsked

\* Changes make no server willing, and none that stays so has been edited.
LEMMA WillingShrinks ==
    ASSUME TypeInv, AsBegun, Tick \/ EditServer \/ UrlChanges \/ DirectoryChanges
    PROVE  /\ AsBegun'
           /\ steady' \subseteq steady
           /\ \A s \in Server : Willing(s)' => Willing(s) /\ row'[s] = row[s]
           /\ UNCHANGED <<cache, stage, sender, checked, found, acting, memo, left, at,
                          urls, resolved>>
<1>1. /\ UNCHANGED <<cache, stage, sender, checked, found, acting, memo, rows, prefetched,
                     left, at, urls, resolved>>
      /\ steady' \subseteq steady
    BY DEF Tick, EditServer, UrlChanges, DirectoryChanges, cacheVars, mailVars, verdictVars,
           actionVars, lookupVars, resultVars, history
<1>2. \A s \in steady' \cap Server : row'[s] = row[s] /\ directory'[s] = directory[s]
    BY DEF Tick, EditServer, UrlChanges, DirectoryChanges, environment, history, TypeInv, Types
<1>3. \A u \in steady' \cap Url : state'[u] = state[u]
    BY DEF Tick, EditServer, UrlChanges, DirectoryChanges, environment, history, TypeInv, Types
<1>4. AsBegun'
    BY <1>1, <1>2, <1>3 DEF AsBegun
<1>5. ASSUME NEW s \in Server, Willing(s)' PROVE Willing(s) /\ row'[s] = row[s]
    BY <1>1, <1>2, <1>5 DEF Willing, Reachable
<1> QED BY <1>1, <1>4, <1>5

LEMMA ServersAre ==
    ASSUME TypeInv
    PROVE  /\ TenantServers(sender) \subseteq Server
           /\ \A x \in Action : ServersFor(x) \subseteq Server
           /\ \A o \in memo : o.action \in Action
           /\ stage = "resolving" => Acting \in Action
<1>1. TenantServers(sender) \subseteq Server
    BY DEF TenantServers
<1>2. ASSUME NEW x \in Action PROVE ServersFor(x) \subseteq Server
    <2>1. ActionRow[x].servers \subseteq Server
        BY DirectoryAssumption DEF ActionRows
    <2> QED BY <1>1, <2>1 DEF ServersFor
<1>3. stage = "resolving" => Acting \in Action
    BY ActingIs DEF TypeInv, Places
<1> QED BY <1>1, <1>2, <1>3 DEF TypeInv, Types

LEMMA AskedEnvironment ==
    ASSUME TypeInv, Asked, Tick \/ EditServer \/ UrlChanges \/ DirectoryChanges
    PROVE  Asked'
<1>1. /\ AsBegun' /\ steady' \subseteq steady
      /\ \A s \in Server : Willing(s)' => Willing(s) /\ row'[s] = row[s]
      /\ UNCHANGED <<cache, stage, sender, checked, found, acting, memo, left, at,
                     urls, resolved>>
    BY WillingShrinks DEF Asked
<1>2. \A s \in TenantServers(sender)' : Willing(s)' => s \in TenantServers(sender) /\ Willing(s)
    BY <1>1 DEF TenantServers
<1>3. ASSUME NEW x \in Action, NEW s \in ServersFor(x)', Willing(s)'
      PROVE  s \in ServersFor(x) /\ Willing(s)
    <2>1. CASE ActionRow[x].servers # {}
        BY <1>1, <1>3, <2>1, ServersAre DEF ServersFor
    <2>2. CASE ActionRow[x].servers = {}
        BY <1>2, <1>3, <2>2 DEF ServersFor
    <2> QED BY <2>1, <2>2
<1>4. UrlsLeft'
    BY <1>1 DEF Asked, UrlsLeft, TypeInv, Types
<1>5. SenderAsked'
    BY <1>1, <1>2 DEF Asked, SenderAsked, Several
<1>6. ActionsAsked'
    <2>1. ASSUME stage \in {"actions", "resolving"}, NEW o \in memo, ~o.resolved,
                 ~ActionRow[o.action].fail, NEW s \in ServersFor(o.action)'
          PROVE  ~Willing(s)'
        BY <1>3, <2>1, ServersAre DEF Asked, ActionsAsked
    <2>2. ASSUME NEW x \in Action, x = Acting, stage = "resolving", ~resolved,
                 ~ActionRow[x].fail, NEW s \in ServersFor(x)', Willing(s)'
          PROVE  s \in left \/ at = s
        BY <1>3, <2>2 DEF Asked, ActionsAsked
    <2>3. \A x : x = Acting => ServersFor(Acting)' = ServersFor(x)' /\ Acting' = Acting
        BY <1>1 DEF ServersFor, Acting
    <2> QED BY <1>1, <2>1, <2>2, <2>3, ServersAre DEF Asked, ActionsAsked
<1> QED BY <1>1, <1>4, <1>5, <1>6 DEF Asked

\* Steps of the process see the same servers.
LEMMA WillingSame ==
    ASSUME UNCHANGED <<environment, steady, sender>>
    PROVE  /\ \A s : Willing(s)' <=> Willing(s)
           /\ TenantServers(sender)' = TenantServers(sender)
           /\ \A x : ServersFor(x)' = ServersFor(x)
BY DEF environment, Willing, Reachable, TenantServers, ServersFor

\* Every step of the process but the first of a mail.
Inside == UNCHANGED <<environment, steady, sender, checked>>

LEMMA InsideOr ==
    ASSUME [Next]_vars
    PROVE  Inside \/ BeginMail \/ Tick \/ EditServer \/ UrlChanges \/ DirectoryChanges
BY DEF Inside, Next, Lookup, vars, mailVars, history, NextServer, UrlFails, UrlRaises,
       UrlsExhausted, SenderFromCache, SenderAnswered, SenderUnknown, AskGroup,
       GroupAnswered, Verdict, ResolveFromMemo, ResolveFromCache, ResolveRefused,
       ResolveAnswered, ResolveDone, BeginAction, BeginResolve, EndMail, NewConnection

LEMMA AskedBegins == ASSUME TypeInv, BeginMail PROVE Asked'
<1>1. /\ rows' = row /\ row' = row /\ state' = state /\ left' = IF checked' = {} THEN {}
                                                              ELSE TenantServers(sender')
      /\ stage' = "sender" /\ memo' = {} /\ at' = None
      /\ steady' = Server \cup {u \in Url : state[u] = "up"}
    BY DEF BeginMail, environment, TypeInv, Places
<1>2. AsBegun'
    BY <1>1, DirectoryAssumption DEF AsBegun, TypeInv, Types
<1>3. UrlsLeft'
    BY <1>1 DEF UrlsLeft
<1>4. TenantServers(sender)' = TenantServers(sender')
    BY <1>1 DEF TenantServers
<1>5. SenderAsked'
    BY <1>1, <1>4 DEF SenderAsked
<1>6. ActionsAsked'
    BY <1>1 DEF ActionsAsked
<1> QED BY <1>2, <1>3, <1>5, <1>6 DEF Asked

LEMMA AsBegunInside == ASSUME TypeInv, AsBegun, [Next]_vars, Inside PROVE AsBegun'
<1>1. UNCHANGED <<row, state, steady>>
    BY DEF Inside, environment
<1>2. CASE Verdict
    BY <1>1, <1>2 DEF AsBegun, Verdict, TypeInv, Types
<1>3. CASE BeginResolve
    BY <1>1, <1>3 DEF AsBegun, BeginResolve, actionVars
<1>4. CASE ~(Verdict \/ BeginResolve \/ BeginMail)
    <2>1. UNCHANGED <<rows, prefetched>> /\ stage' \in {stage, "groups", "idle", "raised", "actions"}
          /\ (stage' = "actions" => stage \in {"actions", "resolving"})
        BY <1>4 DEF Next, Lookup, vars, actionVars, lookupVars, Tick, EditServer, UrlChanges,
              DirectoryChanges, NextServer, UrlFails, UrlRaises,
              UrlsExhausted, SenderFromCache, SenderAnswered, SenderUnknown, UseForSender,
              AskGroup, GroupAnswered, ResolveFromMemo, ResolveFromCache, ResolveRefused,
              ResolveAnswered, ResolveDone, Resolve, AddAttributes, BeginAction, EndMail,
              NewConnection
    <2> QED BY <1>1, <2>1 DEF AsBegun
<1>5. CASE BeginMail
    BY <1>5, AskedBegins DEF Asked
<1> QED BY <1>2, <1>3, <1>4, <1>5

\* What an answer of the server at hand says of its willingness.
LEMMA AnsweredIs ==
    ASSUME TypeInv, at \in Server
    PROVE  /\ KnowsOne(directory[at][sender]) => OneResult(Found(at, Ask(at)))
           /\ KnowsOne(directory[at][sender]) => ~Unreadable(Found(at, Ask(at)))
           /\ OneResult(Found(at, Ask(at))) => Delivers(Found(at, Ask(at)))
<1>1. directory[at][sender] \in Answers
    BY DEF TypeInv, Types
<1>2. Found(at, Ask(at)) = Delivered(directory[at][sender], Ask(at))
    BY DEF Found, Delivered
<1> QED BY <1>1, <1>2, DeliveredShape DEF OneResult, Delivers

LEMMA UrlsInside ==
    ASSUME TypeInv, AsBegun, UrlsLeft, [Next]_vars, Inside
    PROVE  UrlsLeft'
<1>1. \A s : Willing(s)' <=> Willing(s)
    BY WillingSame DEF Inside
<1>2. UNCHANGED <<steady, state>> /\ DOMAIN state = Url
    BY DEF Inside, environment, TypeInv, Types
<1>3. CASE UNCHANGED <<at, urls, stage>>
    BY <1>1, <1>2, <1>3 DEF UrlsLeft
<1>4. CASE at' = None \/ stage' \notin {"sender", "resolving"}
    BY <1>4 DEF UrlsLeft
<1>5. CASE NextServer
    BY <1>5, <1>3 DEF NextServer, UrlsLeft
<1>6. CASE UrlFails
    <2> SUFFICES ASSUME stage \in {"sender", "resolving"}, at # None, Willing(at),
                        NEW i \in DOMAIN UrlsOf[at], UrlsOf[at][i] \in steady
                 PROVE  \E j \in DOMAIN urls' : urls'[j] = UrlsOf[at][i]
        BY <1>1, <1>2, <1>6 DEF UrlFails, UrlsLeft
    <2> PICK j \in DOMAIN urls : urls[j] = UrlsOf[at][i]
        BY DEF UrlsLeft
    <2>1. UrlsOf[at] \in Seq(Url)
        BY DirectoryAssumption DEF TypeInv, Types
    <2>2. UrlsOf[at][i] \in Url
        BY <2>1
    <2>3. state[UrlsOf[at][i]] = "up"
        BY <2>2 DEF AsBegun
    <2>4. urls \in Seq(Url) /\ urls # <<>> /\ urls' = Tail(urls) /\ state[urls[1]] = "down"
        BY <1>6 DEF UrlFails, NextUrls, TypeInv, Types
    <2>5. j # 1
        BY <2>3, <2>4
    <2>6. /\ Len(urls) \in Nat /\ DOMAIN urls = 1..Len(urls)
          /\ urls' \in Seq(Url) /\ Len(urls') = Len(urls) - 1
          /\ \A k \in 1..Len(urls') : urls'[k] = urls[k + 1]
        BY ONLY <2>4, HeadTailProperties, LenProperties
    <2>7. j - 1 \in 1..Len(urls') /\ urls'[j - 1] = urls[j] /\ DOMAIN urls' = 1..Len(urls')
        BY <2>5, <2>6
    <2> QED BY <2>7
<1>7. CASE ResolveAnswered
    <2>1. at \in Server
        BY <1>7 DEF ResolveAnswered, TypeInv, Types
    <2>2. at' = None \/ (at' = at /\ ~Delivers(Found(at, Ask(at))))
        BY ONLY <1>7 DEF ResolveAnswered
    <2>3. CASE at' = at /\ ~Delivers(Found(at, Ask(at)))
        <3>1. ~Willing(at')
            BY <2>1, <2>3, AnsweredIs DEF Willing
        <3> QED BY <1>1, <2>3, <3>1 DEF UrlsLeft
    <2> QED BY <1>4, <2>2, <2>3
<1>8. \/ UNCHANGED <<at, urls, stage>> \/ at' = None \/ stage' \notin {"sender", "resolving"}
      \/ NextServer \/ UrlFails \/ ResolveAnswered
    BY DEF Next, Lookup, vars, lookupVars, Tick, EditServer, UrlChanges,
           DirectoryChanges, BeginMail, UrlRaises, UrlsExhausted, SenderFromCache,
           SenderAnswered, SenderUnknown, AskGroup, GroupAnswered, Verdict, BeginResolve,
           ResolveFromMemo, ResolveFromCache, ResolveRefused, ResolveDone, Resolve,
           BeginAction, EndMail, NewConnection, TypeInv, Places
<1> QED BY <1>3, <1>4, <1>5, <1>6, <1>7, <1>8

\* A server that the lookup passes over without a search, or that it has no
\* URL left of, is not willing.
LEMMA PassedOver ==
    ASSUME TypeInv, AsBegun, UrlsLeft, stage \in {"sender", "resolving"}
    PROVE  /\ \A s \in Server : ~rows[s].enabled => ~Willing(s)
           /\ at # None /\ urls = <<>> => ~Willing(at)
<1>1. ASSUME NEW s \in Server, ~rows[s].enabled, Willing(s) PROVE FALSE
    BY <1>1 DEF AsBegun, Willing, Reachable
<1>2. ASSUME at # None, urls = <<>>, Willing(at) PROVE FALSE
    <2>1. PICK i \in DOMAIN UrlsOf[at] : UrlsOf[at][i] \in steady
        BY <1>2 DEF Willing, Reachable
    <2>2. \E j \in DOMAIN urls : urls[j] = UrlsOf[at][i]
        BY <1>2, <2>1 DEF UrlsLeft
    <2> QED BY ONLY <1>2, <2>2
<1> QED BY <1>1, <1>2

\* The lookup for the conditions goes on to another server, all else unchanged.
LEMMA SenderGoesOn ==
    ASSUME TypeInv, SenderAsked, Inside, stage = "sender", UNCHANGED <<cache, stage, found>>,
           NEW s \in Server, left' = left \/ left' = left \ {s}, at' = s \/ at' = None,
           at # None => at = s, at' = None => ~Willing(s) \/ Several(s)
    PROVE  SenderAsked'
<1>1. /\ \A t : Willing(t)' <=> Willing(t)
      /\ TenantServers(sender)' = TenantServers(sender)
    BY WillingSame DEF Inside
<1>2. \A t : Several(t)' <=> Several(t)
    BY DEF Several, Inside
<1> SUFFICES ASSUME checked # {}, found = NotFound, NEW t \in TenantServers(sender), Willing(t)
             PROVE  t \in left' \/ at' = t \/ Several(t)
    BY <1>1, <1>2 DEF SenderAsked, Inside
<1>3. t \in left \/ at = t \/ Several(t)
    BY DEF SenderAsked
<1>4. t \in Server
    BY ServersAre
<1> QED BY <1>3, <1>4, DirectoryAssumption

\* What the step of the process that uses an answer does to the lookup.
LEMMA SenderUses ==
    ASSUME TypeInv, SenderAsked, Inside, stage = "sender",
           NEW s \in Server, NEW entry, UseForSender(s, entry),
           left' = left \/ left' = left \ {s}, at' = None, at # None => at = s,
           ~OneResult(entry.data) => ~Willing(s) \/ Several(s)
    PROVE  SenderAsked'
<1>1. CASE OneResult(entry.data)
    <2>1. stage' = "raised" \/ (stage' = "groups" /\ found'.server = s)
        BY <1>1 DEF UseForSender
    <2>2. found'.server = s => found' # NotFound
        BY DirectoryAssumption DEF NotFound
    <2> QED BY <2>1, <2>2 DEF SenderAsked, NotFound
<1>2. CASE ~OneResult(entry.data)
    <2>1. UNCHANGED <<cache, stage, found>>
        BY <1>2 DEF UseForSender, cacheVars
    <2> QED BY <1>2, <2>1, SenderGoesOn
<1> QED BY <1>1, <1>2

LEMMA SenderAskedInside ==
    ASSUME TypeInv, CacheTrue, AsBegun, UrlsLeft, SenderAsked, [Next]_vars, Inside
    PROVE  SenderAsked'
<1>1. /\ \A t : Willing(t)' <=> Willing(t)
      /\ TenantServers(sender)' = TenantServers(sender)
      /\ UNCHANGED <<sender, checked>>
    BY WillingSame DEF Inside
<1>2. CASE stage' \in {"idle", "resolving", "raised"}
    BY <1>2 DEF SenderAsked
<1>3. CASE stage' = "actions" /\ acting' # <<>>
    BY <1>3 DEF SenderAsked
<1>5. CASE NextServer /\ stage = "sender"
    <2>1. PICK s \in left :
              /\ left' = left \ {s}
              /\ (rows[s].enabled /\ at' = s) \/ (~rows[s].enabled /\ at' = None)
        BY <1>5 DEF NextServer, Remaining
    <2>2. s \in Server /\ at = None /\ UNCHANGED <<cache, stage, found>>
        BY <1>5, <2>1 DEF NextServer, cacheVars, verdictVars, TypeInv, Types
    <2>3. at' = None => ~Willing(s)
        BY <1>5, <2>1, <2>2, PassedOver, DirectoryAssumption
    <2> QED BY ONLY <1>5, <2>1, <2>2, <2>3, SenderGoesOn, TypeInv, SenderAsked, Inside
<1>6. CASE UrlsExhausted /\ stage = "sender"
    <2>1. /\ at \in Server /\ urls = <<>> /\ at' = None
          /\ UNCHANGED <<cache, stage, found, left>>
        BY <1>6 DEF UrlsExhausted, cacheVars, verdictVars, TypeInv, Types
    <2>2. ~Willing(at)
        BY <1>6, <2>1, PassedOver DEF UrlsExhausted
    <2> QED BY <1>6, <2>1, <2>2, SenderGoesOn
<1>7. CASE SenderFromCache
    <2>0. PICK s \in left : \E entry \in Hits(s) : left' = left \ {s} /\ UseForSender(s, entry)
        BY <1>7 DEF SenderFromCache, Remaining
    <2>1. PICK entry \in Hits(s) : left' = left \ {s} /\ UseForSender(s, entry)
        BY <2>0
    <2>2. s \in Server /\ at = None /\ at' = None /\ stage = "sender"
        BY <1>7, <2>1 DEF SenderFromCache, TypeInv, Types
    <2>3. PICK answer \in ever[s][sender] : entry.data = Delivered(answer, Ask(s))
        BY <2>2, HitIsTrue
    <2>4. answer \in Answers
        BY <2>2 DEF TypeInv, Types
    <2>5. Size(entry.data) \in Nat /\ Size(entry.data) > 0
        <3>1. Size(entry.data) = Size(answer)
            BY <2>3, <2>4, DeliveredShape
        <3>2. Size(answer) \in Nat
            BY <2>4 DEF Answers, Size
        <3> QED BY <2>2, <3>1, <3>2, HitIsTrue
    <2>6. entry \in cache[s] /\ entry.key[1] = sender
        BY DEF Hits, CacheKey
    <2>7. ~OneResult(entry.data) => Several(s)
        BY <2>5, <2>6 DEF OneResult, Several
    <2> QED BY <2>1, <2>2, <2>7, SenderUses
<1>8. CASE SenderAnswered
    <2>1. /\ at \in Server /\ stage = "sender" /\ at' = None /\ left' = left
          /\ UseForSender(at, Fresh(at, Found(at, Ask(at))))
        BY <1>8 DEF SenderAnswered, TypeInv, Types
    <2>2. Fresh(at, Found(at, Ask(at))).data = Found(at, Ask(at))
        BY DEF Fresh
    <2>3. ~OneResult(Fresh(at, Found(at, Ask(at))).data) => ~Willing(at)
        BY <2>1, <2>2, AnsweredIs DEF Willing
    <2> QED BY <2>1, <2>3, SenderUses
<1>9. CASE SenderUnknown
    <2>1. stage = "sender" /\ at = None /\ left = {} /\ UNCHANGED <<cache, found>>
        BY <1>9 DEF SenderUnknown, cacheVars, verdictVars
    <2>2. \A t \in TenantServers(sender) : t # None
        BY DirectoryAssumption DEF TenantServers
    <2> QED BY <1>1, <2>1, <2>2 DEF SenderAsked, Several
<1>10. CASE Tick \/ EditServer \/ UrlChanges \/ DirectoryChanges \/ UrlFails \/ BeginAction
            \/ ResolveFromMemo \/ UNCHANGED vars
    <2>1. UNCHANGED <<cache, found, stage, left, at>>
        BY <1>10 DEF Tick, EditServer, UrlChanges, DirectoryChanges, UrlFails, BeginAction,
              ResolveFromMemo, vars, cacheVars, verdictVars, lookupVars
    <2>2. acting' = acting \/ acting' # <<>>
        BY <1>10 DEF Tick, EditServer, UrlChanges, DirectoryChanges, UrlFails, BeginAction,
              ResolveFromMemo, vars, actionVars, TypeInv, Types
    <2>3. stage \in {"sender", "groups", "actions"} \/ stage' \in {"idle", "resolving", "raised"}
        BY <2>1 DEF TypeInv, Types
    <2> QED BY <1>1, <1>2, <1>3, <2>1, <2>2, <2>3 DEF SenderAsked, Several
<1>11. CASE AskGroup \/ GroupAnswered \/ Verdict \/ (UrlsExhausted /\ stage # "sender")
    <2>1. UNCHANGED <<cache, found, acting>>
        BY <1>11 DEF AskGroup, GroupAnswered, Verdict, UrlsExhausted, cacheVars, verdictVars,
              actionVars
    <2>2. (stage = "groups" /\ stage' \in {"groups", "actions"})
          \/ stage' \in {"idle", "resolving", "raised"}
        BY <1>11 DEF AskGroup, GroupAnswered, Verdict, UrlsExhausted, TypeInv, Types, Places
    <2> QED BY <1>1, <1>2, <2>1, <2>2 DEF SenderAsked, Several
<1>12. CASE ResolveDone \/ ResolveRefused
    BY <1>3, <1>12 DEF ResolveDone, ResolveRefused, Resolve, TypeInv, Places
<1>13. CASE \/ UrlRaises \/ ResolveFromCache \/ ResolveAnswered \/ BeginResolve \/ EndMail
            \/ NewConnection \/ (NextServer /\ stage # "sender")
    BY <1>2, <1>13 DEF UrlRaises, ResolveFromCache, ResolveAnswered, BeginResolve, EndMail,
          NewConnection, NextServer, AddAttributes
<1>14. CASE BeginMail
    BY <1>14, AskedBegins DEF Asked
<1> QED BY <1>5, <1>6, <1>7, <1>8, <1>9, <1>10, <1>11, <1>12, <1>13, <1>14 DEF Next, Lookup

\* Of the outcomes kept, those without the sender have no willing server.
LEMMA OutcomesInside ==
    ASSUME TypeInv, ActionsAsked, [Next]_vars, Inside, ~BeginMail
    PROVE  /\ stage' \in {"sender", "groups"} => memo' = {}
           /\ stage' \in {"actions", "resolving"} =>
                  \A o \in memo' : ~o.resolved /\ ~ActionRow[o.action].fail =>
                      \A s \in ServersFor(o.action) : ~Willing(s)
<1>1. CASE ResolveRefused
    <2> DEFINE new == [action |-> Acting, resolved |-> FALSE, attributes |-> attributes]
    <2>1. memo' = memo \cup {new} /\ stage' = "actions" /\ stage = "resolving"
        BY <1>1 DEF ResolveRefused, Resolve, Remember
    <2>2. new.action = Acting /\ ActionRow[Acting].fail
        BY <1>1 DEF ResolveRefused
    <2> HIDE DEF new
    <2> QED BY <2>1, <2>2 DEF ActionsAsked
<1>2. CASE ResolveDone
    <2> DEFINE new == [action |-> Acting, resolved |-> resolved, attributes |-> attributes]
    <2>1. /\ memo' = memo \cup {new} /\ stage' = "actions" /\ stage = "resolving"
          /\ left = {} /\ at = None
        BY <1>2 DEF ResolveDone, Resolve, Remember
    <2>2. new.action = Acting /\ new.resolved = resolved
        OBVIOUS
    <2> HIDE DEF new
    <2>3. \A s \in ServersFor(Acting) : s # None
        BY <2>1, ServersAre, DirectoryAssumption
    <2>4. ~resolved /\ ~ActionRow[Acting].fail => \A s \in ServersFor(Acting) : ~Willing(s)
        BY <2>1, <2>3 DEF ActionsAsked
    <2> QED BY <2>1, <2>2, <2>4 DEF ActionsAsked
<1>3. CASE ~ResolveRefused /\ ~ResolveDone
    <2>1. /\ memo' = memo
          /\ stage' \in {"sender", "groups"} => stage \in {"sender", "groups"}
          /\ stage' \in {"actions", "resolving"} => stage \in {"actions", "resolving", "groups"}
        BY <1>3 DEF Next, Lookup, vars, Tick, EditServer, UrlChanges, DirectoryChanges,
              NextServer, UrlFails, UrlRaises, UrlsExhausted, SenderFromCache, SenderAnswered,
              SenderUnknown, UseForSender, AskGroup, GroupAnswered, Verdict, ResolveFromMemo,
              ResolveFromCache, ResolveAnswered, AddAttributes, BeginAction, BeginResolve,
              EndMail, NewConnection, actionVars
    <2> QED BY <2>1 DEF ActionsAsked
<1> QED BY <1>1, <1>2, <1>3

\* While an action resolves the sender, its willing servers are still to come.
LEMMA ResolvingInside ==
    ASSUME TypeInv, AsBegun, UrlsLeft, ActionsAsked, [Next]_vars, Inside, ~BeginMail,
           stage' = "resolving", ~resolved', NEW x \in Action, x = Acting',
           ~ActionRow[x].fail, NEW t \in ServersFor(x), Willing(t)
    PROVE  t \in left' \/ at' = t
<1>1. t \in Server
    BY ServersAre
<1>2. CASE BeginResolve
    <2>1. Acting' = Acting
        BY <1>2 DEF BeginResolve, actionVars, Acting
    <2>2. left' = ServersFor(x)
        BY <1>2, <2>1 DEF BeginResolve, ServersFor
    <2> QED BY <2>2
<1>3. CASE stage = "resolving" /\ ~BeginResolve
    <2>1. acting' = acting
        BY <1>3 DEF Next, Lookup, vars, Tick, EditServer, UrlChanges, DirectoryChanges,
              NextServer, UrlFails, UrlRaises, UrlsExhausted, SenderFromCache, SenderAnswered,
              SenderUnknown, AskGroup, GroupAnswered, Verdict, ResolveFromMemo,
              ResolveFromCache, ResolveAnswered, ResolveDone, ResolveRefused, BeginAction,
              EndMail, NewConnection, actionVars
    <2>2. Acting' = Acting
        BY <2>1 DEF Acting
    <2>3. ~resolved => t \in left \/ at = t
        BY <1>3, <2>2 DEF ActionsAsked
    <2>4. CASE UNCHANGED <<left, at, resolved>>
        BY <2>3, <2>4
    <2>5. CASE NextServer
        <3>1. PICK s \in left :
                  /\ left' = left \ {s}
                  /\ at' = s \/ ~rows[s].enabled
            BY <2>5 DEF NextServer, Remaining
        <3>2. UNCHANGED resolved /\ at = None /\ t # None
            BY <1>1, <2>5, DirectoryAssumption DEF NextServer, resultVars
        <3>3. ~rows[t].enabled => ~Willing(t)
            BY <1>1, <1>3, PassedOver
        <3> QED BY <2>3, <3>1, <3>2, <3>3
    <2>6. CASE UrlsExhausted
        <3>1. UNCHANGED <<resolved, left>> /\ at # None /\ urls = <<>>
            BY <2>6 DEF UrlsExhausted, resultVars
        <3>2. ~Willing(at)
            BY <1>3, <3>1, PassedOver
        <3> QED BY <2>3, <3>1, <3>2
    <2>7. CASE ResolveFromCache
        BY <2>7 DEF ResolveFromCache
    <2>8. CASE ResolveAnswered
        <3>1. left' = left /\ (resolved' = TRUE \/ UNCHANGED <<resolved, at>>)
            BY ONLY <2>8 DEF ResolveAnswered
        <3> QED BY <2>3, <3>1
    <2> QED BY <1>3, <2>4, <2>5, <2>6, <2>7, <2>8
          DEF Next, Lookup, vars, Tick, EditServer, UrlChanges, DirectoryChanges,
              UrlFails, UrlRaises, SenderFromCache, SenderAnswered,
              SenderUnknown, AskGroup, GroupAnswered, Verdict, ResolveFromMemo,
              ResolveDone, ResolveRefused, Resolve, BeginAction,
              EndMail, NewConnection, lookupVars, resultVars
<1>4. stage = "resolving" \/ BeginResolve
    BY DEF Next, Lookup, vars, Tick, EditServer, UrlChanges, DirectoryChanges,
           NextServer, UrlFails, UrlRaises, UrlsExhausted, SenderFromCache, SenderAnswered,
           SenderUnknown, UseForSender, AskGroup, GroupAnswered, Verdict, ResolveFromMemo,
           ResolveFromCache, ResolveAnswered, ResolveDone, ResolveRefused, BeginAction,
           EndMail, NewConnection
<1> QED BY <1>2, <1>3, <1>4

LEMMA AskedStep == ASSUME TypeInv, CacheTrue, Asked, [Next]_vars PROVE Asked'
<1>1. CASE Inside /\ ~BeginMail
    <2>1. /\ \A s : Willing(s)' <=> Willing(s)
          /\ \A x : ServersFor(x)' = ServersFor(x)
        BY <1>1, WillingSame DEF Inside
    <2>2. AsBegun' /\ UrlsLeft' /\ SenderAsked'
        BY <1>1, AsBegunInside, UrlsInside, SenderAskedInside DEF Asked
    <2>3. /\ stage' \in {"sender", "groups"} => memo' = {}
          /\ stage' \in {"actions", "resolving"} =>
                 \A o \in memo' : ~o.resolved /\ ~ActionRow[o.action].fail =>
                     \A s \in ServersFor(o.action) : ~Willing(s)
        BY <1>1, OutcomesInside DEF Asked
    <2>4. ASSUME stage' = "resolving", ~resolved', NEW x, x = Acting', ~ActionRow[x].fail,
                 NEW t \in ServersFor(x), Willing(t)
          PROVE  t \in left' \/ at' = t
        <3>1. x \in Action
            <4>1. Types' /\ Places'
                BY TypesStep DEF TypeInv
            <4>2. acting' \in Seq(Action) /\ acting' # <<>>
                BY <2>4, <4>1 DEF Types, Places
            <4>3. x = acting'[Len(acting')]
                BY <2>4 DEF Acting
            <4> QED BY ONLY <4>2, <4>3
        <3> QED BY <1>1, <2>4, <3>1, ResolvingInside DEF Asked
    <2>5. ActionsAsked'
        <3>1. \A x : x = Acting' => ServersFor(Acting)' = ServersFor(x)
            BY <2>1 DEF ServersFor
        <3> QED BY <2>1, <2>3, <2>4, <3>1 DEF ActionsAsked
    <2> QED BY <2>2, <2>5 DEF Asked
<1>2. CASE BeginMail
    BY <1>2, AskedBegins
<1>3. CASE Tick \/ EditServer \/ UrlChanges \/ DirectoryChanges
    BY <1>3, AskedEnvironment
<1> QED BY <1>1, <1>2, <1>3, InsideOr

\* A sender whom a server knows that could be reached all along is found, by
\* the directory conditions and by every action that goes on without it,
\* whatever URLs fail and servers change meanwhile: no server that would have
\* answered is passed over (_sender_entry(), _resolve_sender()).
THEOREM ReachableSenderAlwaysFound == Spec => []ReachableSenderFound
<1> DEFINE I == TypeInv /\ CacheTrue /\ Asked
<1>1. Init => Asked
    BY DEF Init, Asked, AsBegun, UrlsLeft, SenderAsked, ActionsAsked
<1>2. I /\ [Next]_vars => I'
    BY TypesStep, CacheStep, AskedStep
<1>3. I => ReachableSenderFound
    <2> SUFFICES ASSUME I PROVE ReachableSenderFound
        OBVIOUS
    <2>1. ASSUME JudgedUnknown, NEW s \in TenantServers(sender), Willing(s) PROVE Several(s)
        BY <2>1 DEF JudgedUnknown, Asked, SenderAsked
    <2>2. ASSUME stage \in {"actions", "resolving"}, NEW o \in memo, ~o.resolved,
                 ~ActionRow[o.action].fail, NEW s \in ServersFor(o.action)
          PROVE  ~Willing(s)
        BY <2>2 DEF Asked, ActionsAsked
    <2> QED BY <2>1, <2>2 DEF ReachableSenderFound, Willing, Several
<1> QED BY <1>1, <1>2, <1>3, TypesInitially, CacheInitially, PTL DEF Spec
=============================================================================

--------------------------- MODULE MCWebContainer ---------------------------
(***************************************************************************)
(* What the processes of the web container do at boot and beside each      *)
(* other, on small instances.  The components share no row and no file, so *)
(* a behaviour is one of a single one: "part" says which, the others rest. *)
(***************************************************************************)
EXTENDS EnvSync, AccessControl, CaFile, QuickUpload, TLC

VARIABLE part

Tn(slug, domains) == [slug |-> slug, enabled |-> TRUE, domains |-> domains]
Sv(name, tenant, urls) ==
    [name |-> name, tenant |-> tenant, urls |-> urls, valid |-> TRUE]
File(tenants, servers, prune) ==
    [tenants |-> tenants, servers |-> servers, pruneTenants |-> prune, pruneServers |-> prune]

MCUrl == {<<"a">>, <<"b", "a">>}

Nothing == File(<<>>, <<>>, TRUE)

\* Two tenants; one takes the domain of the other over, which is pruned; a
\* handle and a name twice; a domain that moves; a server that is refused.
MCEnv == {
    Nothing,
    File(<<Tn("acme", <<"x">>), Tn("globex", <<"y">>)>>, <<Sv("main", "acme", <<"a">>)>>, FALSE),
    File(<<Tn("acme", <<"x", "y">>)>>,
         <<Sv("main", "acme", <<"b", "a">>), Sv("spare", NoTenant, <<"a">>)>>, TRUE),
    File(<<Tn("globex", <<"y">>), Tn("globex", <<"x">>)>>,
         <<Sv("main", "acme", <<"a">>), Sv("main", "globex", <<"a">>)>>, TRUE),
    File(<<Tn("globex", <<"y">>), Tn("acme", <<"x">>)>>, <<Sv("spare", "globex", <<"a">>)>>, TRUE),
    File(<<>>, <<[Sv("main", NoTenant, <<"a">>) EXCEPT !.valid = FALSE]>>, TRUE)}

\* Of two tenants one is dropped, and the other takes its domain over; or both
\* stay, and the domain moves to the one listed first.
MCMoved == {
    File(<<Tn("acme", <<"x">>), Tn("globex", <<"y">>)>>, <<>>, TRUE),
    File(<<Tn("acme", <<"y">>)>>, <<>>, TRUE),
    File(<<Tn("acme", <<"x", "y">>), Tn("globex", <<"z">>)>>, <<>>, TRUE)}

\* The sign-ins at a time are alike.
Requests == Permutations(Request)

\* In the access control, a kill takes the place of a change (bound).
MaxTroubles == 2
FewTroubles == changes + kills <= MaxTroubles

Init ==
    /\ SyncInit
    /\ AccessInit
    /\ CaInit
    /\ UploadInit
    /\ part \in {"sync", "access", "ca", "upload"}
    /\ claims = [u \in SsoUser |-> SsoGroup]
    /\ part # "sync" => env = Nothing
    /\ part # "ca" => pem = [w \in Worker |-> "pem1"]
    /\ part # "upload" => stem = [u \in Upload |-> "logo"]

Next ==
    \/ part = "sync" /\ SyncNext /\ UNCHANGED <<accessVars, caVars, uploadVars, part>>
    \/ part = "access" /\ AccessNext /\ UNCHANGED <<vars, caVars, uploadVars, part>>
    \/ part = "ca" /\ CaNext /\ UNCHANGED <<vars, accessVars, uploadVars, part>>
    \/ part = "upload" /\ UploadNext /\ UNCHANGED <<vars, accessVars, caVars, part>>

Spec == Init /\ [][Next]_<<vars, accessVars, caVars, uploadVars, part>>
=============================================================================

------------------------------- MODULE CaFile -------------------------------
(***************************************************************************)
(* _ca_file() of ldap_helper.py: libldap reads CA certificates from files  *)
(* only, so every process that opens an ldaps:// connection makes sure that*)
(* the file of its certificate exists.  The processes of one container     *)
(* share the directory; any of them may be killed between two calls.       *)
(***************************************************************************)

CONSTANTS
    Worker,  \* processes of the container, by pid
    Pem      \* certificates

VARIABLES
    files,   \* the directory: name -> certificate, or "part" of one
    pem,     \* the certificate each worker is at
    opening  \* where each worker is in open_connection()

caVars == <<files, pem, opening>>

\* Named after the content: one file per certificate.
CaPath(c) == <<c>>

\* Faulty variant, for mutation: all processes share one scratch file.
SharedScratch(c, w) == <<c, "tmp">>

Scratch(c, w) == <<c, w>>

CaInit ==
    /\ files = <<>>
    /\ pem \in [Worker -> Pem]
    /\ opening = [w \in Worker |-> "idle"]

At(w, from, to) ==
    /\ opening[w] = from
    /\ opening' = [opening EXCEPT ![w] = to]

Stored(name, content) ==
    files' = [n \in DOMAIN files \cup {name} |-> IF n = name THEN content ELSE files[n]]

Exists(w) ==
    /\ CaPath(pem[w]) \in DOMAIN files
    /\ At(w, "idle", "found")
    /\ UNCHANGED <<files, pem>>

Lacks(w) ==
    /\ CaPath(pem[w]) \notin DOMAIN files
    /\ At(w, "idle", "missing")
    /\ UNCHANGED <<files, pem>>

\* The file is truncated, and then holds a part of the text.
BeginWrite(w) ==
    /\ At(w, "missing", "writing")
    /\ Stored(Scratch(pem[w], w), "part")
    /\ UNCHANGED pem

EndWrite(w) ==
    /\ At(w, "writing", "written")
    /\ Stored(Scratch(pem[w], w), pem[w])
    /\ UNCHANGED pem

Replace(w) ==
    LET scratch == Scratch(pem[w], w)
        path == CaPath(pem[w])
    IN  /\ At(w, "written", "found")
        /\ scratch \in DOMAIN files
        /\ files' = [n \in (DOMAIN files \ {scratch}) \cup {path} |->
                        IF n = path THEN files[scratch] ELSE files[n]]
        /\ UNCHANGED pem

\* Connected, no space left, or killed; the next connection is for any server.
Leave(w) ==
    /\ opening[w] # "idle"
    /\ opening' = [opening EXCEPT ![w] = "idle"]
    /\ \E c \in Pem : pem' = [pem EXCEPT ![w] = c]
    /\ UNCHANGED files

CaNext ==
    \E w \in Worker : Exists(w) \/ Lacks(w) \/ BeginWrite(w) \/ EndWrite(w)
                      \/ Replace(w) \/ Leave(w)

CaSpec == CaInit /\ [][CaNext]_caVars

\* "a concurrent reader never sees a half-written file", nor another's, nor
\* none: libldap opens the path at any time after it was found or replaced.
CaFileWhole ==
    /\ \A c \in Pem : CaPath(c) \in DOMAIN files => files[CaPath(c)] = c
    /\ \A w \in Worker : opening[w] = "found" => CaPath(pem[w]) \in DOMAIN files
=============================================================================

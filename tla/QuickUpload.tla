---------------------------- MODULE QuickUpload ----------------------------
(***************************************************************************)
(* The quick upload of the editor (views/signature_image.py): workers look *)
(* for a free slug, one query at a time, and create the row only then;     *)
(* administrators delete images meanwhile.                                 *)
(***************************************************************************)
EXTENDS Naturals

CONSTANTS
    Upload,   \* requests
    Stem,     \* slugs they ask for
    Long,     \* those of 63 characters or more: a suffix makes them too long
    MaxTries  \* counter at which the search gives up, 1000 in the code (bound)

ASSUME UploadAssumption == Long \subseteq Stem /\ MaxTries \in Nat \ {0, 1}

VARIABLES
    gallery,  \* SignatureImage rows: slug -> the upload it shows
    stem,     \* the slug each request asks for
    counter,  \* the suffix it tries, 1 for none
    status    \* "asking", "free", or the HTTP status

uploadVars == <<gallery, stem, counter, status>>

\* unique_slug
UniqueSlug(u) == <<stem[u], counter[u]>>

UploadInit ==
    /\ gallery = [s \in {} |-> {}]
    /\ stem \in [Upload -> Stem]
    /\ counter = [u \in Upload |-> 1]
    /\ status = [u \in Upload |-> "asking"]

Answer(u, from, to) ==
    /\ status[u] = from
    /\ status' = [status EXCEPT ![u] = to]

FindFree(u) ==
    /\ UniqueSlug(u) \notin DOMAIN gallery
    /\ Answer(u, "asking", "free")
    /\ UNCHANGED <<gallery, stem, counter>>

\* The last suffix is not tried any more.
FindTaken(u) ==
    /\ UniqueSlug(u) \in DOMAIN gallery
    /\ counter' = [counter EXCEPT ![u] = @ + 1]
    /\ Answer(u, "asking", IF counter[u] + 1 < MaxTries THEN "asking" ELSE "400")
    /\ UNCHANGED <<gallery, stem>>

\* Faulty variant, for mutation: a row with the slug is overwritten.
Overwrites(u) == TRUE

\* The slug is unique, and has at most 64 characters.
Insertable(u) ==
    /\ UniqueSlug(u) \notin DOMAIN gallery
    /\ stem[u] \in Long => counter[u] = 1

Create(u) ==
    /\ Insertable(u)
    /\ Answer(u, "free", "201")
    /\ gallery' = [s \in DOMAIN gallery \cup {UniqueSlug(u)} |->
                      IF s = UniqueSlug(u) THEN u ELSE gallery[s]]
    /\ UNCHANGED <<stem, counter>>

\* IntegrityError or DataError
CreateFails(u) ==
    /\ ~Insertable(u)
    /\ Answer(u, "free", "500")
    /\ UNCHANGED <<gallery, stem, counter>>

DeleteImage(s) ==
    /\ gallery' = [t \in DOMAIN gallery \ {s} |-> gallery[t]]
    /\ UNCHANGED <<stem, counter, status>>

UploadNext ==
    \/ \E u \in Upload : FindFree(u) \/ FindTaken(u) \/ Create(u) \/ CreateFails(u)
    \/ \E s \in DOMAIN gallery : DeleteImage(s)

UploadSpec == UploadInit /\ [][UploadNext]_uploadVars

\* However the queries of two workers interleave, no upload takes the place of
\* an image: what a signature shows under a slug changes only by a deletion.
NoImageTakenOver ==
    [][\A s \in DOMAIN gallery \cap DOMAIN gallery' : gallery'[s] = gallery[s]]_uploadVars
=============================================================================

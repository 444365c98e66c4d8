---------------------------- MODULE FileProofs ----------------------------
(***************************************************************************)
(* The files that workers of the web container write next to each other:   *)
(* CA certificates (CaFile) and uploaded images (QuickUpload), for any     *)
(* number of workers, certificates and uploads.                            *)
(***************************************************************************)
EXTENDS CaFile, QuickUpload, TLAPS

-----------------------------------------------------------------------------
(* CaFileWhole is not inductive: what Replace moves to the path is whole only *)
(* because no other process writes to the same scratch file.                  *)


CaTyped ==
    /\ pem \in [Worker -> Pem]
    /\ opening \in [Worker -> {"idle", "missing", "writing", "written", "found"}]

ScratchWhole ==
    \A w \in Worker : opening[w] = "written" =>
        /\ Scratch(pem[w], w) \in DOMAIN files
        /\ files[Scratch(pem[w], w)] = pem[w]

CaInv == CaTyped /\ ScratchWhole /\ CaFileWhole

\* No path is a scratch file, and no two processes share one.
LEMMA NamesApart ==
    /\ \A c, d, w : CaPath(c) # Scratch(d, w)
    /\ \A c, d, v, w : Scratch(c, v) = Scratch(d, w) => v = w
PROOF BY DEF CaPath, Scratch

LEMMA PathsApart == \A c, d : CaPath(c) = CaPath(d) => c = d
PROOF BY DEF CaPath

LEMMA AtMoves ==
    ASSUME CaTyped, NEW w \in Worker, NEW from,
           NEW to \in {"idle", "missing", "writing", "written", "found"}, At(w, from, to)
    PROVE  /\ opening[w] = from
           /\ opening'[w] = to
           /\ \A v \in Worker \ {w} : opening'[v] = opening[v]
           /\ opening' \in [Worker -> {"idle", "missing", "writing", "written", "found"}]
PROOF BY DEF At, CaTyped

LEMMA CaInitInv == CaInit => CaInv
PROOF BY DEF CaInit, CaInv, CaTyped, ScratchWhole, CaFileWhole

\* Writing a scratch file leaves every path alone.
LEMMA WritesStep ==
    ASSUME CaInv, NEW w \in Worker, BeginWrite(w) \/ EndWrite(w)
    PROVE  CaInv'
PROOF
<1> DEFINE name == Scratch(pem[w], w)
<1>1. PICK content : Stored(name, content) /\ (EndWrite(w) => content = pem[w])
  BY DEF BeginWrite, EndWrite
<1>2. /\ DOMAIN files' = DOMAIN files \cup {name}
      /\ files'[name] = content
      /\ \A n \in DOMAIN files \ {name} : files'[n] = files[n]
  BY <1>1 DEF Stored
<1>3. pem' = pem /\ pem \in [Worker -> Pem]
  BY DEF BeginWrite, EndWrite, CaInv, CaTyped
<1>4. /\ opening'[w] \in {"writing", "written"}
      /\ opening'[w] = "written" => EndWrite(w)
      /\ \A v \in Worker \ {w} : opening'[v] = opening[v]
      /\ CaTyped'
  BY <1>3, AtMoves DEF BeginWrite, EndWrite, CaInv, CaTyped
<1>5. ScratchWhole'
  <2> SUFFICES ASSUME NEW v \in Worker, opening'[v] = "written"
               PROVE  /\ Scratch(pem[v], v) \in DOMAIN files'
                      /\ files'[Scratch(pem[v], v)] = pem[v]
    BY <1>3 DEF ScratchWhole, Scratch
  <2>1. CASE v = w
    BY <2>1, <1>1, <1>2, <1>4
  <2>2. CASE v # w
    <3>1. Scratch(pem[v], v) # name
      BY <2>2, NamesApart
    <3>2. opening[v] = "written"
      BY <2>2, <1>4
    <3> QED BY <3>1, <3>2, <1>2 DEF CaInv, ScratchWhole
  <2> QED BY <2>1, <2>2
<1>6. CaFileWhole'
  <2>1. \A c : CaPath(c) # name
    BY NamesApart
  <2>2. ASSUME NEW c \in Pem, CaPath(c) \in DOMAIN files'
        PROVE  files'[CaPath(c)] = c
    BY <2>1, <2>2, <1>2 DEF CaInv, CaFileWhole
  <2>3. ASSUME NEW v \in Worker, opening'[v] = "found"
        PROVE  CaPath(pem[v]) \in DOMAIN files'
    BY <2>3, <1>2, <1>4 DEF CaInv, CaFileWhole
  <2> QED BY <2>2, <2>3, <1>3 DEF CaFileWhole, CaPath
<1> QED BY <1>4, <1>5, <1>6 DEF CaInv

\* What is moved to the path is the certificate it is named after.
LEMMA ReplaceStep ==
    ASSUME CaInv, NEW w \in Worker, Replace(w)
    PROVE  CaInv'
PROOF
<1> DEFINE scratch == Scratch(pem[w], w)
           path == CaPath(pem[w])
<1>1. /\ files[scratch] = pem[w]
      /\ opening'[w] = "found"
      /\ \A v \in Worker \ {w} : opening'[v] = opening[v]
      /\ pem' = pem
      /\ CaTyped'
  BY AtMoves DEF Replace, CaInv, CaTyped, ScratchWhole
<1>2. /\ DOMAIN files' = (DOMAIN files \ {scratch}) \cup {path}
      /\ files'[path] = files[scratch]
      /\ \A n \in DOMAIN files' \ {path} : files'[n] = files[n]
  BY DEF Replace
<1>3. ScratchWhole'
  <2> SUFFICES ASSUME NEW v \in Worker, opening'[v] = "written"
               PROVE  /\ Scratch(pem[v], v) \in DOMAIN files'
                      /\ files'[Scratch(pem[v], v)] = pem[v]
    BY <1>1 DEF ScratchWhole, Scratch
  <2>1. v # w /\ opening[v] = "written"
    BY <1>1
  <2>2. Scratch(pem[v], v) # scratch /\ Scratch(pem[v], v) # path
    BY <2>1, NamesApart
  <2> QED BY <2>1, <2>2, <1>2 DEF CaInv, ScratchWhole
<1>4. CaFileWhole'
  <2>1. ASSUME NEW c \in Pem, CaPath(c) \in DOMAIN files'
        PROVE  files'[CaPath(c)] = c
    BY <2>1, <1>1, <1>2, PathsApart DEF CaInv, CaFileWhole
  <2>2. ASSUME NEW v \in Worker, opening'[v] = "found"
        PROVE  CaPath(pem[v]) \in DOMAIN files'
    <3>1. CaPath(pem[v]) # scratch
      BY NamesApart
    <3> QED BY <2>2, <3>1, <1>1, <1>2 DEF CaInv, CaFileWhole
  <2> QED BY <2>1, <2>2, <1>1 DEF CaFileWhole, CaPath
<1> QED BY <1>1, <1>3, <1>4 DEF CaInv

LEMMA OtherSteps ==
    ASSUME CaInv, NEW w \in Worker, Exists(w) \/ Lacks(w) \/ Leave(w)
    PROVE  CaInv'
PROOF
<1>1. files' = files /\ CaTyped'
  BY AtMoves DEF Exists, Lacks, Leave, CaInv, CaTyped
<1>2. \A v \in Worker \ {w} : opening'[v] = opening[v] /\ pem'[v] = pem[v]
  BY AtMoves DEF Exists, Lacks, Leave, CaInv, CaTyped
<1>3. /\ opening'[w] # "written"
      /\ opening'[w] = "found" => CaPath(pem'[w]) \in DOMAIN files
  BY AtMoves DEF Exists, Lacks, Leave, CaInv, CaTyped
<1>4. ScratchWhole'
  BY <1>1, <1>2, <1>3 DEF CaInv, ScratchWhole, Scratch
<1>5. CaFileWhole'
  BY <1>1, <1>2, <1>3 DEF CaInv, CaFileWhole, CaPath
<1> QED BY <1>1, <1>4, <1>5 DEF CaInv

\* At no moment does a process of the container read anything at the path of
\* a certificate but the whole certificate, whoever else writes or is killed.
THEOREM CaFileAlwaysWhole == CaSpec => []CaFileWhole
PROOF
<1>1. CaInv /\ [CaNext]_caVars => CaInv'
  <2> SUFFICES ASSUME CaInv, [CaNext]_caVars PROVE CaInv'
    OBVIOUS
  <2>1. CASE UNCHANGED caVars
    BY <2>1 DEF caVars, CaInv, CaTyped, ScratchWhole, CaFileWhole, CaPath, Scratch
  <2>2. CASE CaNext
    BY <2>2, WritesStep, ReplaceStep, OtherSteps DEF CaNext
  <2> QED BY <2>1, <2>2
<1>2. CaInv => CaFileWhole
  BY DEF CaInv
<1> QED BY CaInitInv, <1>1, <1>2, PTL DEF CaSpec

-----------------------------------------------------------------------------
(* Uploaded images. *)

\* No step gives a slug in use to another upload: Create looks again, and by
\* then the search may have lost (unique_slug, SignatureImage.objects.create()).
THEOREM NoImageEverTakenOver == UploadSpec => NoImageTakenOver
<1> DEFINE Stays == \A s \in DOMAIN gallery \cap DOMAIN gallery' : gallery'[s] = gallery[s]
<1>1. ASSUME [UploadNext]_uploadVars PROVE [Stays]_uploadVars
    <2>1. CASE UNCHANGED gallery
        BY <2>1
    <2>2. ASSUME NEW u \in Upload, Create(u) PROVE Stays
        BY <2>2 DEF Create, Insertable
    <2>3. ASSUME NEW s \in DOMAIN gallery, DeleteImage(s) PROVE Stays
        BY <2>3 DEF DeleteImage
    <2> QED BY <1>1, <2>1, <2>2, <2>3
          DEF UploadNext, uploadVars, FindFree, FindTaken, CreateFails
<1> QED BY <1>1, PTL DEF UploadSpec, NoImageTakenOver
=============================================================================

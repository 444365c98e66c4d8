SPECIFICATION MimeSpec
CONSTANTS
    Mail <- MCMail
    Chain <- MCChain
    HeaderTag = {"subject"}
    ResolverTag = {"phone"}
    Slug = {"logo"}
    File = {"old", "new", "huge"}
    Oversized = {"huge"}
    MaxEdits = 1
INVARIANTS MimeTypeOK NoPartVanishes EveryTextSigned SkippedLeavesNothing ContentIdsResolve
INVARIANTS PartsLookAlike OwnHeadersStay MtaSendsSignedMail
\* The end of one mail.
CHECK_DEADLOCK FALSE

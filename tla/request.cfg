SPECIFICATION RequestSpec
CONSTANTS
    Pieces <- Batches
    MaxLen = 13
    HeaderLines <- MCHeaderLines
    Digests <- MCDigests
    EtagLen = 2
    UriPieces <- PathPieces
    MaxPieces = 4
    Stray <- PlainStray
CHECK_DEADLOCK FALSE
INVARIANTS
    IncrementalExact
    ParsersAgree
    DecodeBounded
    FieldsExact
    Revalidated
    NormalForm
    Resolved
    RoundTrip

SPECIFICATION SourceSpec
CONSTANTS
    Allowed = {"pdf", "docx", "html"}
    MaxDocument = 3
    MaxBytes = 3
    MaxRedirects = 2
    Chunk = 2
    Requests <- MCRequests
    Bodies <- MCBodies
INVARIANTS DownloadWhole

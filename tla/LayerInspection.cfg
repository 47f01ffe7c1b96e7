\* Every tar of three entries, every policy, every kind of file, and edits of the source while
\* it is scanned: what the inspection of source and layer concludes.
SPECIFICATION Spec
CONSTANTS
    None = None
    NoContent = NoContent
    Outside = Outside
    Catalogue <- MCCatalogue
    PathOrder <- MCPathOrder
    Advisories <- MCAdvisories
    Requests <- MCRequests
    ChunkSize = 1
    MaxScanFiles = 2
    MaxEdits = 2
    MaxEntries = 3
    MaxUnpackedBytes = 3
    MaxLayers = 2
INVARIANTS
    UnpackedIsMerged
    ScanIsOfItsDigest
    SourceIsAsScanned
    AllowedWasLookedUp
    FixedIsProven
    SubjectsAnswered
    AllowedIsClean
    MaterialsAreTheirs

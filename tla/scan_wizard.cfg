CONSTANTS
    MaxPhotos = 4
    MaxScans = 2
SPECIFICATION ScanSpec
INVARIANTS
    SubmissionShown
CHECK_DEADLOCK FALSE

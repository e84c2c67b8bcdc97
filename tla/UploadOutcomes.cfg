\* Every answer to every upload, up to nine failures in a row.
SPECIFICATION Spec
CONSTANTS
    Statuses <- MCStatuses
    UseGzip = TRUE
    MaxAttempts = 9
INVARIANTS
    UploadTypeOK
    BackoffMatchesFailures
    
    FailureVisible
    LossAnnouncedOnce
\* The process may die, and the number of attempts is bounded.
CHECK_DEADLOCK FALSE

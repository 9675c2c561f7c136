SPECIFICATION LiveSpec
CONSTANTS
    RetryDelayMs = 1
    MaxRetryDelayMs = 3
    EnableRetry = TRUE
    Reconnects = FALSE
    Prompt = TRUE
    MaxCalls = 6
INVARIANTS OneAttempt NoSocketLeak
PROPERTIES StopHolds KeepsTrying CleanDestroy
CHECK_DEADLOCK FALSE

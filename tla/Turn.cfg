SPECIFICATION Spec
CONSTANTS
    Histories       <- MCHistories
    ReformatBudget  = 1
    MaxTokenChoices <- CallerTokens
    Ceiling         = 16384
    MaxCalls        = 2
    HasTodos        = FALSE
    NoResult        = NoResult
INVARIANTS
    OnlyApprovedRun
    PromptAnswered
    EffectsRecorded
    FilterOnlyInResume
    ResumeAccepted
    RerunOnlyByRetry
PROPERTIES
    ImplementsContract
    Terminates
CHECK_DEADLOCK FALSE

\* Two callers with a question of two keys each, and two failed attempts.
CONSTANTS
    None = None
    Prefetch = Prefetch
    Item = Item
    Week = Week
    Day = Day
    Callers <- MCCallers
    Questions <- MCQuestions
    Windows <- MCWindows
    Limit <- MCLimit
    Span <- MCSpan
    Backoffs <- MCBackoffs
    MinInterval = 1
    SafetyMargin = 0
    MaxRetries = 2
    Ttl = 2
    TtlUnknown = 1
    RetryAfters = {1, 3}
    MaxFaults = 2
    MaxCalls = 1
SPECIFICATION Spec
INVARIANTS
    StaleOnlyAfterFailure
PROPERTIES
    KeepsQuota
    PenaltyHonoured
    QuestionsEnd
CHECK_DEADLOCK FALSE

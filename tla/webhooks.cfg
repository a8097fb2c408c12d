\* Two analyzers with an alert each, two webhooks that keep two runs and have one.
CONSTANTS
    s1 = s1
    s2 = s2
    a0 = a0
    a1 = a1
    a2 = a2
    Sender = {s1, s2}
    Alert = {a0, a1, a2}
    AlertsOf <- OneEach
    Past <- FailedBefore
    FilterChoices <- AllOrFirst
    Webhook = {w1, w2}
    MaxRetries = 1
    MaxRuns = 2
    MaxEdits = 1
    NoHook = NoHook
SPECIFICATION WebhooksFairSpec
INVARIANTS
    RunsAreTrue
    LostOnlyByOverlap
    NoneLeftOut
PROPERTY SendersEnd
CHECK_DEADLOCK FALSE

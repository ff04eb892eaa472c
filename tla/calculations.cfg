SPECIFICATION Spec
CONSTANTS
    Esc = "Esc"
    Bel = "Bel"
    Backslash = "Backslash"
    Redacted = "Redacted"
    Newline = "Newline"
    Return = "Return"
    MaxBytes = 3
    Unset = unset
    Canonical <- MCCanonical
    SameKey <- MCSameKey
    NoValue = noValue
    Tasks = {"math", "facts"}
    Domains = {"tool_calling", "reasoning"}
    NoParser = noParser
    NoTrial = noTrial
    MaxSummaries = 2
    Absent = absent
    DefaultImage = "default image"
    Unsafe = "un safe"
    Parted = "one;two"
    Stub = "one"
    NotSet = notSet
    NotPinned = notPinned
    Failed = failed
    ImageId = imageId
INVARIANTS
    StreamsAreWhole
    SweepsAreComplete
    VerdictsAreMeasured
    WinnersAgree
    JobsDoWhatWasAsked
    PreflightIsSound

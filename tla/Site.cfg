\* Every file of up to five of ten lines, and every request with two names.
CONSTANTS
    Lines <- SomeLines
    MaxLines = 5
    Number <- Digits
    Accessible = {"x"}
    Names = {"a", "b"}
    NoHeader = NoHeader
SPECIFICATION SiteSpec
INVARIANTS
    ConfTypeOK
    SettingsAsWritten
    EndsForCause
    ServedAsWritten
CHECK_DEADLOCK FALSE

\* Requests with a query or a body, one token of the header replaced or none.
CONSTANTS
    Requests <- SomeRequests
    Size <- SomeSizes
    Upper = {"GET", "PUT", "POST", "PATCH", "HTTP"}
    Noise <- SomeNoise
    MaxName = 2
    MaxTrunk = 7
SPECIFICATION ReaderSpec
INVARIANTS
    ReaderTypeOK
    HeaderIsRead
    ArgsAreSent
    FieldsAreLines
    LineIsSane
CHECK_DEADLOCK FALSE

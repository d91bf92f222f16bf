SPECIFICATION MetricsSpec
CONSTANTS
    Requests = {q1, q2, q3, q4}
    Retention = 2
    Event = event
    MaxEvents = 2
SYMMETRY Symmetry
INVARIANTS MetricsTypeOK RecordsExact CountsExact
PROPERTIES NoWriteWhileRead
CHECK_DEADLOCK FALSE

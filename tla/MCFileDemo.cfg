CONSTANT AllowIoFailure = TRUE

SPECIFICATION Spec

\* The program ends, normally or by exit(3).
CHECK_DEADLOCK FALSE

INVARIANT LastRecordReadBack

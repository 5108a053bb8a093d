CONSTANT AllowIoFailure = FALSE

SPECIFICATION Spec

\* The program ends, normally or by exit(3).
CHECK_DEADLOCK FALSE

INVARIANT NoOverread

\* A detached launch and a run in the foreground, after a process that died.
CONSTANTS
    Proc = {p1, p2, p3}
    Former = {p3}
    Wrappers = {p1}
    NoFile = NoFile
    Empty = Empty
SPECIFICATION DetachSpec
INVARIANTS DetachTypeOK MutexUntilSteal NoAbandonedFile OneWorking EndedOnRecord RefusedStaysDown WorkersReaped
PROPERTIES SentinelFinal StaleLockReclaimed ShutdownEnds
\* Every process may be gone: the host may stop.
CHECK_DEADLOCK FALSE

\* x86 TSO with the relaxed atomics as written: ring payload and writer
\* cursor publication. Both threads may end up blocked for good once every
\* message is consumed (the app then waits for events, the worker sleeps),
\* so deadlock is not a fault here.
CONSTANTS
    Msgs = 2
SPECIFICATION Spec
INVARIANT ReadsWhatWasWritten
CHECK_DEADLOCK FALSE

\* x86 TSO with the relaxed atomics as written: can a wakeup be lost?
\* Deadlock is not checked: the lost wakeup itself ends in both threads
\* blocked, which the liveness property reports.
CONSTANTS
    Msgs = 1
SPECIFICATION Spec
PROPERTY PublishedConsumed
CHECK_DEADLOCK FALSE

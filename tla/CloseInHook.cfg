\* A hook of c1 issues the commands of c3 while k1 closes the client.  The
\* system stops in this situation, so deadlock is not an error of the run.
SPECIFICATION FairSpec
CONSTANTS
    c1 = c1
    c2 = c2
    c3 = c3
    c4 = c4
    Callers = {c1, c3}
    Closers = {k1}
    MaxInflight = 2
    Nested = {c3}
    Parent <- OneHook
    NoOne = NoOne
CHECK_DEADLOCK FALSE
PROPERTIES
    CloseReturns

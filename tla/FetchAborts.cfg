CONSTANTS
    f1 = f1
    f2 = f2
    f3 = f3
    f4 = f4
    here = here
    port = port
    there = there
    Task = {f1, f4}
    Origin = {here, port, there}
    Host = {"a", "b"}
    OriginOf <- MCOriginOf
    HostOf <- MCHostOf
    Allows <- MCAllows
    Delay = 2
    Timeout = 2
    Cap = 2
    Rows = {"absent"}
SPECIFICATION Spec
INVARIANT OneFeedNeverAborts

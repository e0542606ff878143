SPECIFICATION FairSpec
CONSTANTS
    n1 = n1
    Ids = {n1}
    Conns = {c1, c2}
    IdOf <- MCIdOf
    MaxChanges = 3
    MaxFaults = 1
INVARIANTS InOrder ViewCurrent WritesToOpen NoEntryLeaks
PROPERTIES PushedWhileListening GoneIsClosed
\* Everybody may have left and nothing changes any more.
CHECK_DEADLOCK FALSE

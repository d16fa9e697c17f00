----------------------------- MODULE MCDebugRuns -----------------------------
EXTENDS DebugRuns

CONSTANTS f1, f2, f3, q1

\* f3's admin is another one.
MCSub == [r \in {f1, f2, f3, q1} |-> IF r = f3 THEN "admin2" ELSE "admin1"]

ForwardClock == {1}

\* time.time() is the wall clock, which may be set back while the service runs.
WallClock == {1, -1}

==============================================================================

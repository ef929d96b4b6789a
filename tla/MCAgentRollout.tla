--------------------------- MODULE MCAgentRollout ---------------------------
EXTENDS AgentRollout

CONSTANTS r1, r2, v1, v2

MCSamples == {r1, r2}
MCServers == <<v1, v2>>
\* One request per tick; three tokens per tick and per request, which is
\* more than the bucket holds.
MCLimiters == <<[rate |-> 1, max |-> 1, cost |-> 1],
                [rate |-> 3, max |-> 2, cost |-> 3]>>
=============================================================================

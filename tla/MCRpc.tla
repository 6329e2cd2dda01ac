-------------------------------- MODULE MCRpc --------------------------------
\* Two requests of the caller and one its callback sends again, to one server.
EXTENDS Rpc

CONSTANTS r1, r2, r3, hA

MCHostOf == [r \in Requests |-> hA]

MCRetry == [r \in Requests |-> IF r = r1 THEN r3 ELSE None]
=============================================================================

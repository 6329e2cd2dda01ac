----------------------------- MODULE MCRpcClient -----------------------------
\* A write that is refused and repeated, and a request to another host.
EXTENDS RpcClient

CONSTANTS r1, r2, r3, hA, hB

MCHostOf == [r \in Requests |-> IF r = r3 THEN hB ELSE hA]

MCRetry == [r \in Requests |-> IF r = r1 THEN r2 ELSE None]
=============================================================================

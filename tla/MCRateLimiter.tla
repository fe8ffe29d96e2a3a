---------------------------- MODULE MCRateLimiter ----------------------------
(***************************************************************************)
(* Small instances of RateLimiter.                                         *)
(***************************************************************************)
EXTENDS RateLimiter

CONSTANTS ip1, ip2  \* two client addresses

\* One client waits a minute when it was refused, the other asks at once.
MCPause == [ip \in Addresses |-> IF ip = ip1 THEN Minute ELSE 0]
=============================================================================

----------------------------- MODULE MCPipeline ------------------------------
(* An IDE that streams a valid diff, a blank one and another valid one, and a *)
(* webhook whose diff is too large for the broker; one relay.                 *)
EXTENDS Pipeline

CONSTANTS ide, host, a, b, blank, huge, relay, org, r1, r2

MCScript == [c \in {ide, host} |-> IF c = ide THEN <<a, blank, b>> ELSE <<huge>>]
MCOrgOf == [i \in 1..MaxRows |-> org]
==============================================================================

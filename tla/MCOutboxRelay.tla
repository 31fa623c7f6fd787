---------------------------- MODULE MCOutboxRelay ----------------------------
(* Three rows, of one organization but for the second. *)
EXTENDS OutboxRelay

CONSTANTS a, b, o1, o2

MCOrgOf == [i \in Ids |-> IF i = 2 THEN o2 ELSE o1]
==============================================================================

------------------------ MODULE MCCommandTransport ------------------------
(***************************************************************************)
(* An instance of CommandTransport: two identical requests that can be     *)
(* coalesced, one urgent request that expects a response for the same      *)
(* node, and capacity for one request per node.  r2 outlives the run.       *)
(***************************************************************************)
EXTENDS CommandTransport

CONSTANTS r1, r2, r3, n1

MCRequests == {r1, r2, r3}
MCNodes == {n1}
MCTarget == [r \in MCRequests |-> n1]
MCPayload == [r \in MCRequests |-> IF r = r3 THEN "other" ELSE "same"]
MCPriority == [r \in MCRequests |-> IF r = r3 THEN 0 ELSE 1]
MCExpects == {r3}
MCPerishable == {r1, r3}
=============================================================================

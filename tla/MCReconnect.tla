---------------------------- MODULE MCReconnect ----------------------------
(***************************************************************************)
(* Instances of Reconnect: an outage of two failures reaches the limit,    *)
(* the maximal backoff and a storm, so that the paths behind each run.     *)
(***************************************************************************)
EXTENDS Reconnect

BothKinds == {"sig", "telink"}
TelinkOnly == {"telink"}
SigOnly == {"sig"}
NoLimitOrTwo == {0, 2}
Slow == [type |-> "TimeoutError", named |-> {"timeout"}, words |-> {}]
Unsupported == [type |-> "BleakError", named |-> {}, words |-> {"unsupported"}]
SlowOrUnsupported == {Slow, Unsupported}
SlowOnly == {Slow}
=============================================================================

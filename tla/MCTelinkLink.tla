---------------------------- MODULE MCTelinkLink ----------------------------
(***************************************************************************)
(* An instance of TelinkLink: one task that connects, two BLE sessions,    *)
(* two commands, the second of which can expire in the queue.              *)
(***************************************************************************)
EXTENDS TelinkLink

CONSTANT c1

MCCallers == {c1}
MCRequests == <<[kind |-> "power", arg |-> 1],
                [kind |-> "brightness", arg |-> 100]>>
=============================================================================

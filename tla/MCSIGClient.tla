---------------------------- MODULE MCSIGClient ----------------------------
(***************************************************************************)
(* An instance of SIGClient: two tasks that send, over two BLE sessions.   *)
(* The calls are pairs that meet in one of the tables: two requests with   *)
(* one opcode, two commands, a light that is retried and a time response,  *)
(* a segmented message and a time response.                                *)
(***************************************************************************)
EXTENDS SIGClient

CONSTANTS s1, s2

Call(x, a) == [op |-> x, arg |-> a, entity |-> FALSE]
EntityCall(x, a) == [op |-> x, arg |-> a, entity |-> TRUE]
Pair(x, y) == [s \in {s1, s2} |-> IF s = s1 THEN x ELSE y]

MCPrograms == {Pair(Call("bind", 0), Call("bind", 0)),
               Pair(Call("power", 1), Call("level", 0)),
               Pair(EntityCall("lightness", 128), Call("vendor", 0)),
               Pair(Call("appkey", 0), Call("vendor", 0))}
MCSeqNumbers == {5, 8197}
=============================================================================

--------------------------- MODULE FreshNumbers ---------------------------
(***************************************************************************)
(* What a source of SIG Mesh sequence numbers promises.  Every number that *)
(* is issued is larger than all the numbers issued before it, so that no   *)
(* (source, sequence, IV index) nonce is used twice, until the source has  *)
(* forfeited that promise; a forfeited promise never comes back.           *)
(***************************************************************************)
EXTENDS Naturals

VARIABLES
  next,       \* every number below next may have been used as a nonce
  repeated,   \* some number was issued although it may have been used
  forfeited   \* the source no longer promises anything

fvars == <<next, repeated, forfeited>>

Init ==
  /\ next = 0
  /\ repeated = FALSE
  /\ forfeited = FALSE

Issue ==
  /\ next' \in Nat
  /\ next' > next
  /\ UNCHANGED <<repeated, forfeited>>

Forfeit ==
  /\ forfeited' = TRUE
  /\ next' \in Nat
  /\ next' >= next
  /\ UNCHANGED repeated

IssueForfeited ==
  /\ forfeited
  /\ next' \in Nat
  /\ next' >= next
  /\ repeated' \in BOOLEAN
  /\ UNCHANGED forfeited

Next == Issue \/ Forfeit \/ IssueForfeited

Spec == Init /\ [][Next]_fvars
===========================================================================

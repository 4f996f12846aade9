------------------------- MODULE MCSupportWorkflow -------------------------
(* Instances of SupportWorkflow for TLC. *)
EXTENDS SupportWorkflow, TLC

CONSTANTS alice, bob, o1, o2, w1, r1, r2, r3, r4

AliceOwns == o1 :> alice
Delivered == o1 :> "delivered"

\* The message may also name an order that has no row.
TwoOwners == o1 :> alice @@ o2 :> alice
TwoStatus == o1 :> "delivered" @@ o2 :> "absent"

Symmetric == Permutations(Requests) \cup Permutations(Workflows)
=============================================================================

------------------------- MODULE MCSpeedLimitFusion -------------------------
(* A miss, a binding sign and an advice, as the gateway daemons send them. *)
EXTENDS SpeedLimitFusion
MCPayloads == {NoPayload, [ok |-> TRUE, first |-> 80, second |-> Unset],
                          [ok |-> TRUE, first |-> Unset, second |-> 80]}
=============================================================================

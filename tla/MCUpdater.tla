------------------------------ MODULE MCUpdater ------------------------------
(* Instance of Updater for TLC: the second version needs another AGNOS, the third goes back. *)
EXTENDS Updater

CONSTANTS s1, s2
MCOs == [v \in Versions |-> IF v = 2 THEN s2 ELSE s1]
===============================================================================

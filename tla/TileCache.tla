----------------------------- MODULE TileCache ------------------------------
(***************************************************************************)
(* What the OSM tile sync promises, as an abstract specification: the      *)
(* gateway publishes and withdraws tile contents, and the device's cache   *)
(* changes only by copying what the gateway publishes at that moment or by *)
(* forgetting tiles.  A content is a version number, 0 when there is none. *)
(***************************************************************************)
EXTENDS Integers

CONSTANTS Tiles, MaxVersion
VARIABLES server,   \* tile -> published version, 0 when withdrawn
          last,     \* tile -> the newest version ever published
          cache     \* tile -> version held by the device

Versions == 0..MaxVersion

Init ==
  /\ server \in [Tiles -> {0, 1}]
  /\ last = server
  /\ cache = [t \in Tiles |-> 0]

Publish(t) ==
  /\ last[t] < MaxVersion
  /\ last' = [last EXCEPT ![t] = last[t] + 1]
  /\ server' = [server EXCEPT ![t] = last[t] + 1]
  /\ UNCHANGED cache

Withdraw(t) ==
  /\ server' = [server EXCEPT ![t] = 0]
  /\ UNCHANGED <<last, cache>>

\* The device takes over the content the gateway publishes now.
Install(t) ==
  /\ server[t] # 0
  /\ cache' = [cache EXCEPT ![t] = server[t]]
  /\ UNCHANGED <<server, last>>

Forget(S) ==
  /\ cache' = [t \in Tiles |-> IF t \in S THEN 0 ELSE cache[t]]
  /\ UNCHANGED <<server, last>>

Next ==
  \/ \E t \in Tiles : Publish(t) \/ Withdraw(t) \/ Install(t)
  \/ \E S \in SUBSET Tiles : Forget(S)

Spec == Init /\ [][Next]_<<server, last, cache>>
=============================================================================

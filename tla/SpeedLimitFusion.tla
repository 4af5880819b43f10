-------------------------- MODULE SpeedLimitFusion --------------------------
(***************************************************************************)
(* The bus around europilot_speedlimitd (europilot/speed_limit.py):        *)
(* europilotd and osmd publish, conflating sockets keep the latest message *)
(* of a service, a SubMaster (cereal/messaging) receives it, and           *)
(* speedlimitd fuses NDW, camera (RSA frames on the CAN bus) and map into  *)
(* one limit, holding a camera reading for RSA_HOLD_S.                     *)
(***************************************************************************)
EXTENDS Integers

CONSTANTS
  Limits,       \* speeds a sign may show, km/h
  RSA_HOLD_S,
  Payloads,     \* what the gateway daemons may publish
  Faults        \* whether iterations may raise

Unset == -1                              \* None in Python, -1 on the wire
Read == -2                               \* no unread message
Speeds == Limits \cup {Unset}
MaxAge == RSA_HOLD_S + 3                 \* ages saturate past what the properties tell apart
Older(a) == IF a = MaxAge THEN a ELSE a + 1
Gateway == {"ndw", "osm"}                \* euNdwMatrixSigns, euMapAdvisory

\* `first` and `second`: mandatory and advisory speed of an NDW message's
\* governing gantry, posted limit and daytime-motorway default of a map
\* advisory; `ok` is the payload's own valid field.
NoPayload == [ok |-> FALSE, first |-> Unset, second |-> Unset]

ASSUME FusionAssumption ==
  /\ Limits \subseteq Nat \ {0} /\ RSA_HOLD_S \in Nat /\ Faults \in BOOLEAN
  /\ Payloads \subseteq [ok : BOOLEAN, first : Speeds, second : Speeds]

VARIABLES
  sock,         \* Gateway -> the latest unread message: fresh, envelope, payload
  sub,          \* Gateway -> what the SubMaster holds: recv, valid, payload
  can,          \* the latest unread `can` message: Read, or its RSA1 limit
  rsa_limit, rsa_age,   \* the held camera reading and the time since rsa_seen
  shown,        \* history: age of each limit's last broadcast by the camera
  out,          \* the last euSpeedLimit: speedLimit and source
  ran           \* an iteration ended since time last advanced

vars == <<sock, sub, can, rsa_limit, rsa_age, shown, out, ran>>

Init ==
  /\ sock = [s \in Gateway |-> [fresh |-> FALSE, envelope |-> FALSE, data |-> NoPayload]]
  /\ sub = [s \in Gateway |-> [recv |-> FALSE, valid |-> FALSE, data |-> NoPayload]]
  /\ can = Read /\ rsa_limit = Unset /\ rsa_age = 0
  /\ shown = [l \in Limits |-> MaxAge]
  /\ out = [speedLimit |-> Unset, source |-> "none"] /\ ran = FALSE

-----------------------------------------------------------------------------
\* messaging.new_message: the envelope's `valid` unless the caller sets it,
\* which europilotd and osmd never do.
new_message_valid == FALSE

\* europilotd or osmd publishes; the socket conflates.
Send(s, p) ==
  /\ sock' = [sock EXCEPT ![s] = [fresh |-> TRUE, envelope |-> new_message_valid, data |-> p]]
  /\ UNCHANGED <<sub, can, rsa_limit, rsa_age, shown, out, ran>>

\* pandad publishes a `can` message, with a speed-limit sign in an RSA1 frame
\* (speed_limit_from_can decodes it) or without one; the socket conflates.
SendCan(l) ==
  /\ can' = l
  /\ shown' = IF l = Unset THEN shown ELSE [shown EXCEPT ![l] = 0]
  /\ UNCHANGED <<sock, sub, rsa_limit, rsa_age, out, ran>>

\* SubMaster.update_msgs for the gateway services.
Received ==
  [s \in Gateway |->
     IF sock[s].fresh
       THEN [recv |-> TRUE, valid |-> sock[s].envelope, data |-> sock[s].data]
       ELSE sub[s]]

\* sm.valid and recv_frame > 0, then the payload's own valid field.
Field(m, f) ==
  IF m.valid /\ m.recv /\ m.data.ok THEN (IF f = "first" THEN m.data.first ELSE m.data.second)
                                    ELSE Unset

\* PRIORITY: a binding matrix sign, the camera, matrix advice, the map, the
\* daytime motorway default.
PRIORITY == <<"ndwMandatory", "rsaCamera", "ndwAdvisory", "osm", "timeOfDay">>
\* Mutant: the wire's -1 is taken for a reading.
MutFuse(c) == [speedLimit |-> c[PRIORITY[1]], source |-> PRIORITY[1]]
fuse_speed_limit(c) ==
  LET usable == {i \in DOMAIN PRIORITY : c[PRIORITY[i]] > 0} IN
  IF usable = {} THEN [speedLimit |-> Unset, source |-> "none"]
  ELSE LET i == CHOOSE j \in usable : \A k \in usable : j <= k
       IN [speedLimit |-> c[PRIORITY[i]], source |-> PRIORITY[i]]

\* Mutant: the held reading never runs out.
MutHeld(limit, age) == limit

\* The camera reading that takes part in fusion.
Held(limit, age) == IF limit # Unset /\ age <= RSA_HOLD_S THEN limit ELSE Unset

\* One iteration of main: receive, decode, fuse, publish.
Iterate ==
  LET now == Received
      read == can \in Limits
      limit == IF read THEN can ELSE rsa_limit
      age == IF read THEN 0 ELSE rsa_age
  IN
  /\ sub' = now /\ sock' = [s \in Gateway |-> [sock[s] EXCEPT !.fresh = FALSE]]
  /\ can' = Read /\ rsa_limit' = limit /\ rsa_age' = age
  /\ out' = fuse_speed_limit(
       [ndwMandatory |-> Field(now["ndw"], "first"), rsaCamera |-> Held(limit, age),
        ndwAdvisory |-> Field(now["ndw"], "second"), osm |-> Field(now["osm"], "first"),
        timeOfDay |-> Field(now["osm"], "second")])
  /\ ran' = TRUE
  /\ UNCHANGED shown

\* An iteration that raises publishes the fail-closed heartbeat.
IterateFails ==
  /\ Faults
  /\ sub' = Received /\ sock' = [s \in Gateway |-> [sock[s] EXCEPT !.fresh = FALSE]]
  /\ can' = Read
  /\ \/ UNCHANGED <<rsa_limit, rsa_age>>
     \/ can \in Limits /\ rsa_limit' = can /\ rsa_age' = 0
  /\ out' = [speedLimit |-> Unset, source |-> "none"] /\ ran' = TRUE
  /\ UNCHANGED shown

\* One unit of time; the 5 Hz loop iterates at least once in each.
Tick ==
  /\ ran /\ ran' = FALSE
  /\ rsa_age' = Older(rsa_age) /\ shown' = [l \in Limits |-> Older(shown[l])]
  /\ UNCHANGED <<sock, sub, can, rsa_limit, out>>

Next ==
  \/ \E s \in Gateway, p \in Payloads : Send(s, p)
  \/ \E l \in Speeds : SendCan(l)
  \/ Iterate \/ IterateFails \/ Tick

Spec == Init /\ [][Next]_vars

-----------------------------------------------------------------------------
\* Types, and a limit is published exactly when it has a source.
TypeOK ==
  /\ \A s \in Gateway : {sock[s].data, sub[s].data} \subseteq Payloads \cup {NoPayload}
  /\ can \in Speeds \cup {Read}
  /\ rsa_limit \in Speeds /\ rsa_age \in 0..MaxAge
  /\ shown \in [Limits -> 0..MaxAge]
  /\ out.speedLimit \in Speeds /\ (out.source = "none" <=> out.speedLimit = Unset)
  /\ ran \in BOOLEAN

\* A limit attributed to the camera was really broadcast by it, within the hold
\* time plus the one unit a message may wait in the socket and the one the last
\* publication stands: conflation and holding never resurrect an older sign.
CameraLimitIsRecent ==
  out.source = "rsaCamera" => shown[out.speedLimit] <= RSA_HOLD_S + 2
=============================================================================

----------------------- MODULE SpeedLimitFusionProofs -----------------------
(***************************************************************************)
(* A camera limit never outlives its sign by more than the hold time plus  *)
(* two units, for any limits, hold time and gateway messages.              *)
(***************************************************************************)
EXTENDS SpeedLimitFusion, TLAPS

\* One unit is lost whenever time advanced and the loop has not run since.
Slack == IF ran = TRUE THEN 0 ELSE 1

\* The inductive invariant: each place a camera reading passes through (the
\* socket, the held value, the publication) bounds the age of the broadcast.
FInv ==
  /\ ran \in BOOLEAN
  /\ can \in Speeds \cup {Read}
  /\ rsa_limit \in Speeds /\ rsa_age \in 0..MaxAge
  /\ shown \in [Limits -> 0..MaxAge]
  /\ can \in Limits => shown[can] <= Slack
  /\ rsa_limit \in Limits => shown[rsa_limit] <= rsa_age + 1
  /\ out.source = "rsaCamera" =>
       out.speedLimit \in Limits /\ shown[out.speedLimit] <= RSA_HOLD_S + 1 + Slack

LEMMA FInit == Init => FInv
<1> SUFFICES ASSUME Init PROVE FInv
  OBVIOUS
<1> USE FusionAssumption
<1>1. ran = FALSE
  BY Zenon DEF Init
<1>2. can = Read /\ rsa_limit = Unset /\ rsa_age = 0 /\ shown = [l \in Limits |-> MaxAge]
      /\ out.source = "none"
  BY DEF Init
<1>3. Unset \notin Limits /\ Read \notin Limits
  BY DEF Unset, Read
<1>4. ran \in BOOLEAN
  BY <1>1, Zenon
<1> QED BY <1>2, <1>3, <1>4 DEF FInv, Speeds, MaxAge

\* Either nothing is usable, or one of the usable limits is published.
LEMMA FusedIsUsable ==
  ASSUME NEW c
  PROVE  \/ fuse_speed_limit(c) = [speedLimit |-> Unset, source |-> "none"]
         \/ \E i \in 1..5 : /\ c[PRIORITY[i]] > 0
                            /\ fuse_speed_limit(c) = [speedLimit |-> c[PRIORITY[i]], source |-> PRIORITY[i]]
<1> DEFINE usable == {i \in DOMAIN PRIORITY : c[PRIORITY[i]] > 0}
<1> DEFINE first == CHOOSE j \in usable : \A k \in usable : j <= k
<1>1. DOMAIN PRIORITY = 1..5 /\ usable \subseteq 1..5
  BY DEF PRIORITY
<1>2. CASE usable = {}
  BY <1>2, Zenon DEF fuse_speed_limit
<1>3. CASE usable # {}
  <2>1. \E j \in usable : \A k \in usable : j <= k
    <3>1. CASE 1 \in usable
      BY <1>1, <3>1
    <3>2. CASE 1 \notin usable /\ 2 \in usable
      BY <1>1, <3>2
    <3>3. CASE 1 \notin usable /\ 2 \notin usable /\ 3 \in usable
      BY <1>1, <3>3
    <3>4. CASE 1 \notin usable /\ 2 \notin usable /\ 3 \notin usable /\ 4 \in usable
      BY <1>1, <3>4
    <3>5. CASE 1 \notin usable /\ 2 \notin usable /\ 3 \notin usable /\ 4 \notin usable
      BY <1>1, <1>3, <3>5
    <3> QED BY <3>1, <3>2, <3>3, <3>4, <3>5
  <2>2. first \in usable
    BY <2>1
  <2>3. fuse_speed_limit(c) = [speedLimit |-> c[PRIORITY[first]], source |-> PRIORITY[first]]
    BY <1>3, Zenon DEF fuse_speed_limit
  <2>4. first \in 1..5 /\ c[PRIORITY[first]] > 0
    BY <1>1, <2>2
  <2> HIDE DEF first
  <2> QED BY <2>3, <2>4
<1> QED BY <1>2, <1>3

\* A published limit attributed to the camera is the held reading.
LEMMA FusedCamera ==
  ASSUME NEW c, fuse_speed_limit(c).source = "rsaCamera"
  PROVE  fuse_speed_limit(c).speedLimit = c["rsaCamera"] /\ c["rsaCamera"] > 0
<1>1. PICK i \in 1..5 : /\ c[PRIORITY[i]] > 0
                        /\ fuse_speed_limit(c) = [speedLimit |-> c[PRIORITY[i]], source |-> PRIORITY[i]]
  BY FusedIsUsable
<1>2. PRIORITY[i] = "rsaCamera"
  BY <1>1
<1> QED BY <1>1, <1>2

LEMMA IterateKeepsFInv ==
  ASSUME FInv, Iterate
  PROVE  FInv'
<1> USE FusionAssumption
<1> DEFINE read == can \in Limits
           limit == IF read THEN can ELSE rsa_limit
           age == IF read THEN 0 ELSE rsa_age
<1>1. /\ can' = Read /\ rsa_limit' = limit /\ rsa_age' = age /\ shown' = shown
  BY Zenon DEF Iterate
<1>2. ran' = TRUE
  BY Zenon DEF Iterate
<1>3. limit \in Speeds /\ age \in 0..MaxAge
  BY DEF FInv, Speeds, MaxAge
<1>4. limit \in Limits => shown[limit] <= age + 1
  <2>1. CASE read
    <3>1. shown[can] <= Slack /\ shown[can] \in Int /\ Slack \in {0, 1}
      BY <2>1 DEF FInv, Slack, MaxAge
    <3> QED BY <2>1, <3>1
  <2>2. CASE ~read
    BY <2>2 DEF FInv
  <2> QED BY <2>1, <2>2
<1>5. Read \notin Limits
  BY DEF Read
<1>6. out'.source = "rsaCamera" => out'.speedLimit = Held(limit, age) /\ Held(limit, age) > 0
  <2> DEFINE c == [ndwMandatory |-> Field(Received["ndw"], "first"), rsaCamera |-> Held(limit, age),
                   ndwAdvisory |-> Field(Received["ndw"], "second"),
                   osm |-> Field(Received["osm"], "first"),
                   timeOfDay |-> Field(Received["osm"], "second")]
  <2>1. out' = fuse_speed_limit(c)
    BY Zenon DEF Iterate
  <2>2. c["rsaCamera"] = Held(limit, age)
    OBVIOUS
  <2> HIDE DEF c
  <2> QED BY <2>1, <2>2, FusedCamera
<1>7. out'.source = "rsaCamera" => out'.speedLimit \in Limits
                                   /\ shown[out'.speedLimit] <= RSA_HOLD_S + 1
  <2> SUFFICES ASSUME out'.source = "rsaCamera"
               PROVE  out'.speedLimit \in Limits /\ shown[out'.speedLimit] <= RSA_HOLD_S + 1
    OBVIOUS
  <2> HIDE DEF limit, age
  <2>1. Held(limit, age) = limit /\ age <= RSA_HOLD_S /\ limit > 0
    BY <1>6 DEF Held, Unset
  <2>2. limit \in Limits
    BY <2>1, <1>3 DEF Speeds, Unset
  <2>3. shown[limit] \in Int
    BY <2>2 DEF FInv, MaxAge
  <2> QED BY <1>3, <1>4, <1>6, <2>1, <2>2, <2>3 DEF MaxAge
<1>8. ran' \in BOOLEAN /\ Slack' = 0
  BY <1>2, Zenon DEF Slack
<1> HIDE DEF limit, age
<1> QED BY <1>1, <1>3, <1>4, <1>5, <1>7, <1>8 DEF FInv

LEMMA StepKeepsFInv ==
  ASSUME FInv, [Next]_vars
  PROVE  FInv'
<1> USE FusionAssumption
<1>1. ASSUME NEW s \in Gateway, NEW p \in Payloads, Send(s, p) PROVE FInv'
  BY <1>1 DEF Send, FInv, Slack
<1>2. ASSUME NEW l \in Speeds, SendCan(l) PROVE FInv'
  <2>1. /\ can' = l /\ shown' = IF l = Unset THEN shown ELSE [shown EXCEPT ![l] = 0]
        /\ UNCHANGED <<rsa_limit, rsa_age, out, ran>>
    BY <1>2 DEF SendCan
  <2>2. Slack' = Slack /\ Slack \in {0, 1}
    BY <2>1 DEF Slack
  <2>3. CASE l = Unset
    BY <2>1, <2>2, <2>3 DEF FInv, Unset
  <2>4. CASE l \in Limits
    <3>1. shown' = [shown EXCEPT ![l] = 0]
      BY <2>1, <2>4 DEF Unset
    <3>2. shown' \in [Limits -> 0..MaxAge] /\ shown'[l] = 0
          /\ \A k \in Limits : shown'[k] <= shown[k]
      BY <3>1, <2>4 DEF FInv, MaxAge
    <3> QED BY <2>1, <2>2, <3>2, <2>4 DEF FInv, Speeds, MaxAge
  <2> QED BY <2>3, <2>4 DEF Speeds
<1>3. CASE Iterate
  BY <1>3, IterateKeepsFInv
<1>4. CASE IterateFails
  <2>1. can' = Read /\ shown' = shown /\ out'.source = "none"
        /\ (\/ UNCHANGED <<rsa_limit, rsa_age>>
            \/ can \in Limits /\ rsa_limit' = can /\ rsa_age' = 0)
    BY <1>4 DEF IterateFails
  <2>2. ran' \in BOOLEAN
    BY <1>4, Zenon DEF IterateFails
  <2>3. Read \notin Limits
    BY DEF Read
  <2>4. /\ rsa_limit' \in Speeds /\ rsa_age' \in 0..MaxAge
        /\ rsa_limit' \in Limits => shown[rsa_limit'] <= rsa_age' + 1
    BY <2>1 DEF FInv, Slack, Speeds, MaxAge
  <2> QED BY <2>1, <2>2, <2>3, <2>4 DEF FInv
<1>5. CASE Tick
  <2>1. ran = TRUE \/ ran = FALSE
    BY DEF FInv
  <2>2. ran = TRUE
    BY <1>5, <2>1, Zenon DEF Tick
  <2>3. ran' = FALSE
    BY <1>5, Zenon DEF Tick
  <2>4. ran' \in BOOLEAN /\ Slack = 0 /\ Slack' = 1
    BY <2>2, <2>3 DEF Slack
  <2>5. /\ rsa_age' = Older(rsa_age) /\ shown' = [l \in Limits |-> Older(shown[l])]
        /\ UNCHANGED <<can, rsa_limit, out>>
    BY <1>5 DEF Tick
  <2>6. rsa_age' \in 0..MaxAge /\ shown' \in [Limits -> 0..MaxAge]
    BY <2>5 DEF FInv, Older, MaxAge
  <2>7. \A l \in Limits : shown'[l] <= shown[l] + 1
    BY <2>5 DEF FInv, Older, MaxAge
  <2>8. rsa_limit \in Limits => shown'[rsa_limit] <= rsa_age' + 1
    BY <2>5 DEF FInv, Older, MaxAge
  <2>9. out.source = "rsaCamera" =>
          out.speedLimit \in Limits /\ shown'[out.speedLimit] <= RSA_HOLD_S + 2
    <3> SUFFICES ASSUME out.source = "rsaCamera"
                 PROVE  out.speedLimit \in Limits /\ shown'[out.speedLimit] <= RSA_HOLD_S + 2
      OBVIOUS
    <3>1. out.speedLimit \in Limits /\ shown[out.speedLimit] <= RSA_HOLD_S + 1 + 0
      BY <2>4, Zenon DEF FInv
    <3>2. PICK l \in Limits : l = out.speedLimit
      BY <3>1, Zenon
    <3>3. shown[l] <= RSA_HOLD_S + 1 + 0
      BY <3>1, <3>2, Zenon
    <3>4. shown[l] \in Int /\ shown'[l] \in Int
      BY <2>6 DEF FInv, MaxAge
    <3>5. shown'[l] <= RSA_HOLD_S + 2
      BY <3>3, <3>4, <2>7
    <3> QED BY <3>1, <3>2, <3>5, Zenon
  <2>10. can \in Limits => shown'[can] <= 1
    <3> SUFFICES ASSUME can \in Limits PROVE shown'[can] <= 1
      OBVIOUS
    <3>1. shown[can] <= 0 /\ shown[can] \in Int /\ shown'[can] \in Int
      BY <2>4, <2>6 DEF FInv, MaxAge
    <3> QED BY <3>1, <2>7
  <2> QED BY <2>4, <2>5, <2>6, <2>8, <2>9, <2>10 DEF FInv
<1>6. CASE UNCHANGED vars
  BY <1>6 DEF vars, FInv, Slack
<1> QED BY <1>1, <1>2, <1>3, <1>4, <1>5, <1>6 DEF Next

\* A limit attributed to the camera was broadcast at most RSA_HOLD_S + 2 ago.
THEOREM CameraTheorem == Spec => []CameraLimitIsRecent
<1>1. FInv => CameraLimitIsRecent
  <2> SUFFICES ASSUME FInv, out.source = "rsaCamera"
               PROVE  shown[out.speedLimit] <= RSA_HOLD_S + 2
    BY DEF CameraLimitIsRecent
  <2>1. Slack \in {0, 1}
    BY DEF Slack
  <2>2. out.speedLimit \in Limits /\ shown[out.speedLimit] <= RSA_HOLD_S + 1 + Slack
    BY Zenon DEF FInv
  <2>3. PICK l \in Limits : l = out.speedLimit
    BY <2>2, Zenon
  <2>4. shown[l] <= RSA_HOLD_S + 1 + Slack
    BY <2>2, <2>3, Zenon
  <2>5. shown[l] \in Int
    BY FusionAssumption DEF FInv, MaxAge
  <2>6. shown[l] <= RSA_HOLD_S + 2
    BY <2>1, <2>4, <2>5, FusionAssumption
  <2> QED BY <2>3, <2>6, Zenon
<1>2. FInv /\ [Next]_vars => FInv'
  BY StepKeepsFInv
<1> QED BY FInit, <1>1, <1>2, PTL DEF Spec

(***************************************************************************)
(* The types: what the sockets and the SubMaster pass on are payloads that *)
(* were published.                                                         *)
(***************************************************************************)
Data == Payloads \cup {NoPayload}
Messages ==
  /\ sock \in [Gateway -> [fresh : BOOLEAN, envelope : BOOLEAN, data : Data]]
  /\ sub \in [Gateway -> [recv : BOOLEAN, valid : BOOLEAN, data : Data]]

Sourced(o) == o.speedLimit \in Speeds /\ (o.source = "none" <=> o.speedLimit = Unset)

LEMMA FusedIsSourced ==
  ASSUME NEW c, \A i \in 1..5 : c[PRIORITY[i]] \in Speeds
  PROVE  Sourced(fuse_speed_limit(c))
<1>1. CASE fuse_speed_limit(c) = [speedLimit |-> Unset, source |-> "none"]
  BY <1>1 DEF Sourced, Speeds
<1>2. ASSUME NEW i \in 1..5, c[PRIORITY[i]] > 0,
             fuse_speed_limit(c) = [speedLimit |-> c[PRIORITY[i]], source |-> PRIORITY[i]]
      PROVE  Sourced(fuse_speed_limit(c))
  <2>1. PRIORITY[i] # "none" BY DEF PRIORITY
  <2>2. c[PRIORITY[i]] # Unset BY <1>2 DEF Unset
  <2> QED BY <1>2, <2>1, <2>2 DEF Sourced
<1> QED BY <1>1, <1>2, FusedIsUsable

LEMMA ReceivedTypes ==
  ASSUME Messages
  PROVE  /\ Received \in [Gateway -> [recv : BOOLEAN, valid : BOOLEAN, data : Data]]
         /\ [s \in Gateway |-> [sock[s] EXCEPT !.fresh = FALSE]]
              \in [Gateway -> [fresh : BOOLEAN, envelope : BOOLEAN, data : Data]]
BY DEF Messages, Received

LEMMA FieldTypes ==
  ASSUME NEW m \in [recv : BOOLEAN, valid : BOOLEAN, data : Data], NEW f
  PROVE  Field(m, f) \in Speeds
<1>1. Data \subseteq [ok : BOOLEAN, first : Speeds, second : Speeds]
  <2>1. FALSE \in BOOLEAN /\ Unset \in Speeds BY DEF Speeds
  <2>2. NoPayload \in [ok : BOOLEAN, first : Speeds, second : Speeds]
    BY <2>1, Zenon DEF NoPayload
  <2> QED BY <2>2, FusionAssumption DEF FusionAssumption, Data
<1>2. m.data.first \in Speeds /\ m.data.second \in Speeds /\ Unset \in Speeds
  BY <1>1 DEF Speeds
<1> QED BY <1>2, Zenon DEF Field

LEMMA NextTypeOK == FInv /\ Messages /\ TypeOK /\ [Next]_vars => (Messages /\ TypeOK)'
<1> SUFFICES ASSUME FInv, Messages, TypeOK, [Next]_vars PROVE (Messages /\ TypeOK)' OBVIOUS
<1>1. FInv' BY StepKeepsFInv
<1>2. ASSUME Messages', Sourced(out)' PROVE (Messages /\ TypeOK)'
  BY <1>1, <1>2 DEF FInv, Messages, Data, Sourced, TypeOK
<1>3. Sourced(out) BY DEF TypeOK, Sourced
<1>4. ASSUME NEW s \in Gateway, NEW p \in Payloads, Send(s, p) PROVE (Messages /\ TypeOK)'
  <2>1. [fresh |-> TRUE, envelope |-> new_message_valid, data |-> p]
          \in [fresh : BOOLEAN, envelope : BOOLEAN, data : Data]
    BY DEF new_message_valid, Data
  <2>2. Messages' /\ out' = out BY <1>4, <2>1 DEF Send, Messages
  <2> QED BY <1>2, <1>3, <2>2 DEF Sourced
<1>5. ASSUME (\E l \in Speeds : SendCan(l)) \/ Tick \/ UNCHANGED vars PROVE (Messages /\ TypeOK)'
  <2>1. UNCHANGED <<sock, sub, out>> BY <1>5 DEF SendCan, Tick, vars
  <2> QED BY <1>2, <1>3, <2>1 DEF Messages, Sourced
<1>6. CASE IterateFails
  <2>1. Messages' BY <1>6, ReceivedTypes DEF IterateFails, Messages
  <2>2. out' = [speedLimit |-> Unset, source |-> "none"] BY <1>6 DEF IterateFails
  <2> QED BY <1>2, <2>1, <2>2 DEF Sourced, Speeds
<1>7. CASE Iterate
  <2>1. Messages' BY <1>7, ReceivedTypes DEF Iterate, Messages
  <2> DEFINE limit == IF can \in Limits THEN can ELSE rsa_limit
             age == IF can \in Limits THEN 0 ELSE rsa_age
             c == [ndwMandatory |-> Field(Received["ndw"], "first"), rsaCamera |-> Held(limit, age),
                   ndwAdvisory |-> Field(Received["ndw"], "second"),
                   osm |-> Field(Received["osm"], "first"),
                   timeOfDay |-> Field(Received["osm"], "second")]
  <2>2. out' = fuse_speed_limit(c) BY <1>7, Zenon DEF Iterate
  <2>3. \A f : Field(Received["ndw"], f) \in Speeds /\ Field(Received["osm"], f) \in Speeds
    BY ReceivedTypes, FieldTypes DEF Gateway
  <2>4. Held(limit, age) \in Speeds BY DEF Held, FInv, Speeds
  <2>5. \A i \in 1..5 : c[PRIORITY[i]] \in Speeds
    <3> HIDE DEF limit, age
    <3>1. /\ c["ndwMandatory"] \in Speeds /\ c["rsaCamera"] \in Speeds /\ c["ndwAdvisory"] \in Speeds
          /\ c["osm"] \in Speeds /\ c["timeOfDay"] \in Speeds
      BY <2>3, <2>4
    <3> HIDE DEF c
    <3> QED BY <3>1 DEF PRIORITY
  <2> HIDE DEF c
  <2>6. Sourced(out') BY <2>2, <2>5, FusedIsSourced
  <2> QED BY <1>2, <2>1, <2>6 DEF Sourced
<1> QED BY <1>4, <1>5, <1>6, <1>7 DEF Next

\* A limit is published exactly when it has a source, whatever the gateway
\* daemons and the camera send and whenever iterations raise.
THEOREM TypeCorrect == Spec => []TypeOK
<1>1. ASSUME Init PROVE Messages /\ TypeOK
  <2>1. FInv BY <1>1, FInit
  <2>2. Messages BY <1>1 DEF Init, Messages, Data
  <2>3. Sourced(out) BY <1>1 DEF Init, Sourced, Speeds
  <2> QED BY <2>1, <2>2, <2>3 DEF FInv, Messages, Data, Sourced, TypeOK
<1>2. FInv /\ [Next]_vars => FInv' BY StepKeepsFInv
<1> QED BY <1>1, <1>2, FInit, NextTypeOK, PTL DEF Spec
=============================================================================

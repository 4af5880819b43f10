----------------------------- MODULE ControlLoop -----------------------------
(***************************************************************************)
(* The way of an engagement from selfdrived to the car and back:           *)
(* selfdrived publishes selfdriveState, controlsd turns it into            *)
(* carControl, card into CAN messages (sendcan) and pandad hands these to  *)
(* the panda, which passes them on while it allows controls; pandad's      *)
(* heartbeat tells the panda whether selfdrived is engaged, and            *)
(* pandaStates tell selfdrived whether the panda allows controls.          *)
(*                                                                         *)
(* Time goes in ticks.  A process that runs takes one step in every tick,  *)
(* in any order; it may hang or die, for any time.  Sockets conflate: a    *)
(* reader gets the last message.  Its age counts from when it was read     *)
(* (SubMaster), except for sendcan, where it counts from when it was sent. *)
(***************************************************************************)
EXTENDS Naturals

CONSTANTS
  Alive,          \* ticks after which a message read is not alive (10 periods)
  SendLimit,      \* ticks after which pandad does not send a CAN message (1 s)
  Period,         \* ticks between pandad's rounds with the panda (10 Hz)
  MismatchLimit,  \* selfdrived's samples without controls allowed (200)
  \* the panda's firmware, which is not in this repository
  HeartbeatLimit, \* ticks without a heartbeat
  DisengagedLimit,\* ticks with the heartbeat of a disengaged selfdrived
  MaxStops        \* bound: how often a process stops

ASSUME ControlLoopAssumption ==
  {Alive, SendLimit, Period, MismatchLimit, HeartbeatLimit, DisengagedLimit} \subseteq Nat \ {0}
  /\ MaxStops \in Nat /\ HeartbeatLimit > Period

Processes == {"selfdrived", "controlsd", "card", "pandad", "can_send"}

VARIABLES
  toRun, stopped, stops,   \* who is still to run in this tick; who hangs; how often one hung
  button,                  \* what carState tells selfdrived of the driver: "none", "set" or "cancel"
  enabled, mismatch_counter,    \* selfdrived
  selfdriveState, unread,       \* the last message; which of controlsd and pandad have not read it
  ss,                           \* what controlsd last read
  carControl, ccUnread, CC, ccAge,  \* the last message; what card last read, and since when
  sendcan,                      \* ages of the messages with enabled controls not yet sent
  frame, engaged, ssAge,        \* pandad: rk.frame, the message it last read and since when
  pandaStates,                  \* controlsAllowed as last published
  controls_allowed, heartbeatAge, heartbeatEngaged, disengagedFor,  \* panda
  actuating,                    \* history: the panda passed a command in this tick
  unwanted,                     \* history: ticks since selfdrived said enabled or the driver set
  disagree                      \* history: ticks selfdrived was enabled and pandad saw no controls allowed

schedule == <<toRun, stopped, stops>>
sd == <<enabled, mismatch_counter, selfdriveState>>
controls == <<ss, carControl>>
cardVars == <<CC, ccAge>>
pandadVars == <<frame, engaged, ssAge, pandaStates>>
panda == <<controls_allowed, heartbeatAge, heartbeatEngaged, disengagedFor>>
history == <<actuating, unwanted, disagree>>
vars == <<schedule, button, sd, unread, controls, ccUnread, cardVars, sendcan, pandadVars, panda, history>>

\* The panda waits HeartbeatLimit for pandad, which may then read a message as
\* old as that, take it for alive, be late again, and only then be disengaged.
Bound == 2 * (HeartbeatLimit - 1) + (Alive - 1) + (DisengagedLimit - 1)
Agreement == MismatchLimit + Period
Upto(limit, n) == IF n > limit THEN limit ELSE n

TypeOK ==
  /\ toRun \subseteq Processes /\ stopped \subseteq Processes /\ stops \in 0..MaxStops
  /\ button \in {"none", "set", "cancel"}
  /\ enabled \in BOOLEAN /\ mismatch_counter \in 0..MismatchLimit
  /\ selfdriveState \in BOOLEAN /\ unread \subseteq {"controlsd", "pandad"}
  /\ ss \in BOOLEAN /\ carControl \in BOOLEAN /\ ccUnread \in BOOLEAN
  /\ CC \in BOOLEAN /\ ccAge \in 0..Alive
  /\ sendcan \subseteq 0..(SendLimit - 1)
  /\ frame \in 0..(Period - 1) /\ engaged \in BOOLEAN /\ ssAge \in 0..Alive /\ pandaStates \in BOOLEAN
  /\ controls_allowed \in BOOLEAN /\ heartbeatAge \in 0..HeartbeatLimit
  /\ heartbeatEngaged \in BOOLEAN /\ disengagedFor \in 0..DisengagedLimit
  /\ actuating \in BOOLEAN /\ unwanted \in 0..(Bound + 1) /\ disagree \in 0..(Agreement + 1)

Init ==
  /\ toRun = Processes /\ stopped = {} /\ stops = 0
  /\ button = "none" /\ enabled = FALSE /\ mismatch_counter = 0
  /\ selfdriveState = FALSE /\ unread = {} /\ ss = FALSE
  /\ carControl = FALSE /\ ccUnread = FALSE /\ CC = FALSE /\ ccAge = Alive
  /\ sendcan = {}
  /\ frame = 0 /\ engaged = FALSE /\ ssAge = Alive /\ pandaStates = FALSE
  /\ controls_allowed = FALSE /\ heartbeatAge = 0 /\ heartbeatEngaged = FALSE /\ disengagedFor = 0
  /\ actuating = FALSE /\ unwanted = Bound + 1 /\ disagree = 0

(***************************************************************************)
(* The driver and the schedule.                                            *)
(***************************************************************************)
\* The car's cruise control engages: the panda sees it on the CAN bus, and
\* selfdrived in a carState that card publishes.
Set == /\ "card" \notin stopped /\ button = "none" /\ ~controls_allowed
       /\ button' = "set" /\ controls_allowed' = TRUE /\ unwanted' = 0
       /\ disengagedFor' = 0
       /\ UNCHANGED <<schedule, sd, unread, controls, ccUnread, cardVars, sendcan, pandadVars,
                      heartbeatAge, heartbeatEngaged, actuating, disagree>>

Cancel == /\ "card" \notin stopped /\ controls_allowed
          /\ button' = "cancel" /\ controls_allowed' = FALSE
          /\ UNCHANGED <<schedule, sd, unread, controls, ccUnread, cardVars, sendcan, pandadVars,
                         heartbeatAge, heartbeatEngaged, disengagedFor, history>>

Stop(p) == /\ p \in toRun /\ stops < MaxStops
           /\ stopped' = stopped \cup {p} /\ stops' = stops + 1
           /\ UNCHANGED <<toRun, button, sd, unread, controls, ccUnread, cardVars, sendcan,
                          pandadVars, panda, history>>

Resume(p) == /\ p \in stopped /\ stopped' = stopped \ {p}
             /\ UNCHANGED <<toRun, stops, button, sd, unread, controls, ccUnread, cardVars, sendcan,
                            pandadVars, panda, history>>

Runs(p) == p \in toRun \ stopped /\ toRun' = toRun \ {p} /\ UNCHANGED <<stopped, stops>>

(***************************************************************************)
(* The processes.                                                          *)
(***************************************************************************)
\* Mutant: the condition on controlsAllowed is inverted.
MutCountMismatch == IF ~enabled THEN 0 ELSE
                    IF pandaStates THEN Upto(MismatchLimit, mismatch_counter + 1) ELSE mismatch_counter

\* data_sample counts the mismatch with the `enabled` of the last step;
\* any other event may disengage at any step.
CountMismatch == IF ~enabled THEN 0 ELSE
                 IF pandaStates THEN mismatch_counter ELSE Upto(MismatchLimit, mismatch_counter + 1)

Selfdrived ==
  /\ Runs("selfdrived")
  /\ mismatch_counter' = CountMismatch
  /\ enabled' \in (IF button = "cancel" \/ mismatch_counter' = MismatchLimit THEN {FALSE}
                   ELSE {FALSE, enabled \/ button = "set"})
  /\ selfdriveState' = enabled' /\ unread' = {"controlsd", "pandad"}
  /\ button' = "none"
  /\ unwanted' = (IF enabled' THEN 0 ELSE unwanted)
  /\ UNCHANGED <<controls, ccUnread, cardVars, sendcan, pandadVars, panda, actuating, disagree>>

\* controlsd polls selfdriveState for 15 ms and goes on with what it has.
Controlsd ==
  /\ Runs("controlsd")
  /\ ss' = (IF "controlsd" \in unread THEN selfdriveState ELSE ss)
  /\ unread' = unread \ {"controlsd"}
  /\ carControl' = ss' /\ ccUnread' = TRUE
  /\ UNCHANGED <<button, sd, cardVars, sendcan, pandadVars, panda, history>>

\* card applies carControl only while it is alive.
Card ==
  /\ Runs("card")
  /\ CC' = (IF ccUnread THEN carControl ELSE CC)
  /\ ccAge' = (IF ccUnread THEN 0 ELSE ccAge)
  /\ ccUnread' = FALSE
  /\ sendcan' = (IF ccAge' < Alive /\ CC' THEN sendcan \cup {0} ELSE sendcan)
  /\ UNCHANGED <<button, sd, unread, controls, pandadVars, panda, history>>

\* can_send_thread: what is older than a second is not sent (see Tick).
CanSend ==
  /\ Runs("can_send")
  /\ actuating' = (sendcan # {} /\ controls_allowed)
  /\ sendcan' = {}
  /\ UNCHANGED <<button, sd, unread, controls, ccUnread, cardVars, pandadVars, panda, unwanted, disagree>>

\* Mutant: enabled is taken from the last message, alive or not.
MutPandadRound ==
  /\ Runs("pandad") /\ frame = 0 /\ frame' = (frame + 1) % Period
  /\ ssAge' = (IF "pandad" \in unread THEN 0 ELSE ssAge)
  /\ engaged' = selfdriveState
  /\ unread' = unread \ {"pandad"}
  /\ pandaStates' = controls_allowed
  /\ heartbeatAge' = 0 /\ heartbeatEngaged' = engaged'
  /\ UNCHANGED <<button, sd, controls, ccUnread, cardVars, sendcan, controls_allowed, disengagedFor, history>>

\* Every Period-th round: read selfdriveState, publish pandaStates, send the heartbeat.
PandadRound ==
  /\ Runs("pandad") /\ frame = 0 /\ frame' = (frame + 1) % Period
  /\ ssAge' = (IF "pandad" \in unread THEN 0 ELSE ssAge)
  /\ engaged' = (ssAge' < Alive /\ selfdriveState)
  /\ unread' = unread \ {"pandad"}
  /\ pandaStates' = controls_allowed
  /\ heartbeatAge' = 0 /\ heartbeatEngaged' = engaged'
  /\ UNCHANGED <<button, sd, controls, ccUnread, cardVars, sendcan, controls_allowed, disengagedFor, history>>

\* Mutant: the frame counter never wraps.
MutPandadFrame ==
  /\ Runs("pandad") /\ frame # 0 /\ frame' = frame + 1
  /\ UNCHANGED <<button, sd, unread, controls, ccUnread, cardVars, sendcan, engaged, ssAge, pandaStates,
                 panda, history>>

PandadFrame ==
  /\ Runs("pandad") /\ frame # 0 /\ frame' = (frame + 1) % Period
  /\ UNCHANGED <<button, sd, unread, controls, ccUnread, cardVars, sendcan, engaged, ssAge, pandaStates,
                 panda, history>>

(***************************************************************************)
(* The next tick, when all who run have run; with it the panda's own.      *)
(***************************************************************************)
Older(n, limit) == Upto(limit, n + 1)

PandaTick ==
  /\ heartbeatAge' = Older(heartbeatAge, HeartbeatLimit)
  /\ disengagedFor' = (IF controls_allowed /\ ~heartbeatEngaged
                         THEN Older(disengagedFor, DisengagedLimit) ELSE 0)
  /\ controls_allowed' = (controls_allowed /\ heartbeatAge' < HeartbeatLimit
                                           /\ disengagedFor' < DisengagedLimit)
  /\ UNCHANGED heartbeatEngaged

Tick ==
  /\ toRun \subseteq stopped /\ toRun' = Processes
  /\ PandaTick
  /\ ccAge' = Older(ccAge, Alive) /\ ssAge' = Older(ssAge, Alive)
  /\ sendcan' = {age + 1 : age \in sendcan} \ {SendLimit}
  /\ actuating' = FALSE
  /\ unwanted' = Older(unwanted, Bound + 1)
  /\ disagree' = (IF enabled /\ ~controls_allowed /\ stopped \cap {"selfdrived", "pandad"} = {}
                    THEN Older(disagree, Agreement + 1) ELSE 0)
  /\ UNCHANGED <<stopped, stops, button, sd, unread, controls, ccUnread, CC, frame, engaged, pandaStates>>

Step == Selfdrived \/ Controlsd \/ Card \/ CanSend \/ PandadRound \/ PandadFrame
Next == Set \/ Cancel \/ Step \/ Tick \/ \E p \in Processes : Stop(p) \/ Resume(p)

Spec == Init /\ [][Next]_vars

(***************************************************************************)
(* Properties.                                                             *)
(***************************************************************************)
\* Whichever processes hang or die, and for how long, the panda passes no
\* command later than Bound after selfdrived last said that it is enabled or
\* the driver last asked for control.
ActuationIsWanted == actuating => unwanted <= Bound

\* selfdrived does not believe to be engaged while the panda blocks controls
\* for longer than it takes to report and to count the mismatch.
EngagedIsAllowed == disagree <= Agreement
===============================================================================

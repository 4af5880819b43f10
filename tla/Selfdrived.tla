----------------------------- MODULE Selfdrived -----------------------------
(***************************************************************************)
(* selfdrived (selfdrive/selfdrived/selfdrived.py): the 100 Hz step that   *)
(* samples the car and the panda, computes the events, runs the engagement *)
(* state machine and publishes selfdriveState.  The car has a PCM cruise   *)
(* (CP.pcmCruise) and is neither dashcam-only nor a body, and the process  *)
(* runs on the device (no REPLAY, no SIMULATION).                          *)
(* update_alerts and publish_selfdriveState only derive output from this   *)
(* state; the alerts are the subject of module Alerts.                     *)
(***************************************************************************)
EXTENDS StateMachine

CONSTANTS
  MismatchLimit,        \* data_sample/update_events: 200 samples in the code
  CruiseMismatchLimit,  \* int(6. / DT_CTRL): 600 in the code
  InitFrames,           \* frames until `timed_out` (6 s) in data_sample
  CarEvents,            \* events of create_common_events that the car may raise by itself
  DeviceEvents          \* events of update_events raised by device or monitoring state

ASSUME SelfdrivedAssumption ==
  /\ MismatchLimit \in Nat \ {0}
  /\ CruiseMismatchLimit \in Nat
  /\ InitFrames \in Nat
  /\ CarEvents \subseteq {"steerOverride", "belowSteerSpeed", "doorOpen"}
  /\ DeviceEvents \subseteq {"tooDistracted", "overheat", "processNotRunning"}

VARIABLES
  enabled, active, initialized, frame,     \* SelfdriveD; frame saturates at InitFrames + 1
  mismatch_counter, cruise_mismatch_counter,
  disengage_on_accelerator,                \* written by params_thread
  CS,                                      \* the last CarState, CS_prev of the next step
  checks,                                  \* sm.all_checks() of the last step
  controlsAllowed,                         \* of the pandaStates sampled in the last step
  events,                                  \* names added in the last step
  softFor                                  \* history: consecutive active steps with SOFT_DISABLE

machine == <<state, soft_disable_timer, enabled, active>>
vars == <<machine, initialized, frame, mismatch_counter, cruise_mismatch_counter,
          disengage_on_accelerator, CS, checks, controlsAllowed, events, softFor>>

\* What the step reads of a CarState message.  The pedals are exclusive:
\* the brake at standstill and the brake while moving are treated apart.
Pedals == {"none", "gas", "brakeMoving", "brakeStandstill"}
CarState == [canValid : BOOLEAN, pedal : Pedals, cruiseEnabled : BOOLEAN]
Brakes == {"brakeMoving", "brakeStandstill"}

TypeOK ==
  /\ state \in States
  /\ soft_disable_timer \in 0..SoftDisableFrames
  /\ enabled \in BOOLEAN /\ active \in BOOLEAN /\ initialized \in BOOLEAN
  /\ frame \in 0..(InitFrames + 1)
  /\ mismatch_counter \in 0..MismatchLimit
  /\ cruise_mismatch_counter \in 0..(CruiseMismatchLimit + 1)
  /\ disengage_on_accelerator \in BOOLEAN
  /\ CS \in CarState
  /\ checks \in BOOLEAN /\ controlsAllowed \in BOOLEAN
  /\ events \subseteq EventNames
  /\ softFor \in Nat

Init ==
  /\ state = "disabled" /\ soft_disable_timer = 0
  /\ enabled = FALSE /\ active = FALSE /\ initialized = FALSE /\ frame = 0
  /\ mismatch_counter = 0 /\ cruise_mismatch_counter = 0
  /\ disengage_on_accelerator \in BOOLEAN
  /\ CS = [canValid |-> FALSE, pedal |-> "none", cruiseEnabled |-> FALSE]
  /\ checks = FALSE /\ controlsAllowed = FALSE
  /\ events = {} /\ softFor = 0

-----------------------------------------------------------------------------
\* data_sample: `initialized` latches once the inputs are valid or 6 s passed.
InitializedAfter(cs, ok, f) == initialized \/ (cs.canValid /\ ok) \/ f > InitFrames

\* data_sample: counts the samples of this engagement without controlsAllowed,
\* reading the `enabled` of the previous step.
MismatchAfter(allowed) ==
  IF ~enabled THEN 0 ELSE IF allowed THEN mismatch_counter ELSE mismatch_counter + 1

\* Mutant: only the rising edge of the brake counts.
MutPedalPressed(cs) ==
  \/ cs.pedal = "gas" /\ CS.pedal # "gas" /\ disengage_on_accelerator
  \/ cs.pedal \in Brakes /\ CS.pedal \notin Brakes

\* pedalPressed: rising edge of gas (if configured) or brake, or brake while moving.
PedalPressed(cs) ==
  \/ cs.pedal = "gas" /\ CS.pedal # "gas" /\ disengage_on_accelerator
  \/ cs.pedal \in Brakes /\ (CS.pedal \notin Brakes \/ cs.pedal = "brakeMoving")

\* create_common_events and the pedal check: skipped while CAN is not valid.
CarEventsOf(cs, raised) ==
  IF ~cs.canValid THEN {} ELSE
    raised
      \cup (IF cs.pedal = "brakeStandstill" THEN {"preEnableStandstill"} ELSE {})
      \cup (IF cs.pedal = "gas" THEN {"gasPressedOverride"} ELSE {})
      \cup (IF cs.cruiseEnabled /\ ~CS.cruiseEnabled THEN {"pcmEnable"} ELSE {})
      \cup (IF ~cs.cruiseEnabled THEN {"pcmDisable"} ELSE {})
      \cup (IF PedalPressed(cs) THEN {"pedalPressed"} ELSE {})

\* Mutant: any event at all suppresses the catch-all.
MutWithSystemEvents(before, cs, raised, ok) ==
  LET all == before \cup (raised \cap {"processNotRunning"})
               \cup (IF cs.canValid THEN {} ELSE {"canError"})
  IN  all \cup (IF ~ok /\ all = {} THEN {"commIssue"} ELSE {})

\* The hardware and system part of update_events, then the generic catch-all:
\* commIssue only if the failed check is not already covered by a specific event.
WithSystemEvents(before, cs, raised, ok) ==
  LET system == (raised \cap {"processNotRunning"})
                  \cup (IF cs.canValid THEN {} ELSE {"canError"})
      all == before \cup system
      has_disable_events == /\ "NO_ENTRY" \in contains(all)
                            /\ {"SOFT_DISABLE", "IMMEDIATE_DISABLE"} \cap contains(all) # {}
      no_system_errors == ~has_disable_events \/ system = {}
  IN  all \cup (IF ~ok /\ no_system_errors THEN {"commIssue"} ELSE {})

CruiseMismatchAfter(cs) ==
  IF cs.cruiseEnabled /\ ~enabled
    THEN IF cruise_mismatch_counter > CruiseMismatchLimit
           THEN cruise_mismatch_counter ELSE cruise_mismatch_counter + 1
    ELSE 0

\* Mutant: off by one at the mismatch limit.
MutUpdateEvents(cs, ok, car, device, mismatch, cruise) ==
  WithSystemEvents(
    CarEventsOf(cs, car) \cup (device \ {"processNotRunning"})
      \cup (IF mismatch > MismatchLimit THEN {"controlsMismatch"} ELSE {}),
    cs, device, ok)
  \cup (IF cruise > CruiseMismatchLimit THEN {"cruiseMismatch"} ELSE {})

\* update_events once initialized.
update_events(cs, ok, car, device, mismatch, cruise) ==
  WithSystemEvents(
    CarEventsOf(cs, car) \cup (device \ {"processNotRunning"})
      \cup (IF mismatch >= MismatchLimit THEN {"controlsMismatch"} ELSE {}),
    cs, device, ok)
  \cup (IF cruise > CruiseMismatchLimit THEN {"cruiseMismatch"} ELSE {})

\* state_machine.update, the enabled and active flags it returns.
RunStateMachine(types) ==
  /\ state' = NextState(state, Decrement(soft_disable_timer), types)
  /\ soft_disable_timer' = NextTimer(state, soft_disable_timer, types)
  /\ enabled' = (state' \in ENABLED_STATES)
  /\ active' = (state' \in ACTIVE_STATES)

\* step: data_sample, update_events, and the state machine once initialized.
Step(cs, ok, allowed, car, device) ==
  LET f == IF frame > InitFrames THEN frame ELSE frame + 1
      init == InitializedAfter(cs, ok, f)
      mismatch == MismatchAfter(allowed)
      cruise == IF init THEN CruiseMismatchAfter(cs) ELSE cruise_mismatch_counter
  IN /\ frame' = f /\ initialized' = init
     /\ mismatch_counter' = mismatch /\ cruise_mismatch_counter' = cruise
     /\ events' = IF init THEN update_events(cs, ok, car, device, mismatch, cruise)
                  ELSE {"selfdriveInitializing"}
     /\ IF init THEN RunStateMachine(contains(events')) ELSE UNCHANGED machine
     /\ CS' = cs /\ checks' = ok /\ controlsAllowed' = allowed
     /\ softFor' = IF active' /\ "SOFT_DISABLE" \in contains(events') THEN softFor + 1 ELSE 0
     /\ UNCHANGED disengage_on_accelerator

\* params_thread re-reads DisengageOnAccelerator every 100 ms.
ParamsThread ==
  /\ disengage_on_accelerator' \in BOOLEAN
  /\ UNCHANGED <<machine, initialized, frame, mismatch_counter, cruise_mismatch_counter,
                 CS, checks, controlsAllowed, events, softFor>>

AtMostOne(S) == {{}} \cup {{x} : x \in S}

AnyStep ==
  \E cs \in CarState, ok, allowed \in BOOLEAN,
     car \in AtMostOne(CarEvents), device \in AtMostOne(DeviceEvents) :
       Step(cs, ok, allowed, car, device)

Next == AnyStep \/ ParamsThread

Spec == Init /\ [][Next]_vars

-----------------------------------------------------------------------------
\* Taking the brake always ends an engagement in the same step (docs/SAFETY.md:
\* the driver retakes control by stepping on the brake); holding it at a
\* standstill may at most leave the machine pre-enabled.  The CAN-invalid frames,
\* where the pedal check is skipped, are covered because canError disables.
BrakeDisengages ==
  /\ CS.pedal \in Brakes => ~active
  /\ CS.pedal = "brakeMoving" => ~enabled

\* No soft-disable condition keeps actuating beyond SOFT_DISABLE_TIME: over any
\* run of consecutive frames with a SOFT_DISABLE event the machine is active for
\* at most SoftDisableFrames of them, and one more when it comes from preEnabled,
\* which ignores SOFT_DISABLE in the step that leaves it.
SoftDisableDeadline == softFor <= SoftDisableFrames + 1

\* mismatch_counter never reaches its limit while engaged: the step that sees
\* the last tolerated sample without controlsAllowed also disengages.
MismatchDisengages == enabled => mismatch_counter < MismatchLimit

\* A failed input check is never silent: once initialized, either a specific
\* event or commIssue blocks entry and disables (the catch-all of update_events).
FailedChecksDisable ==
  initialized /\ ~checks =>
    /\ "NO_ENTRY" \in contains(events)
    /\ {"SOFT_DISABLE", "IMMEDIATE_DISABLE"} \cap contains(events) # {}

\* (proof) enabled and active, kept apart from the state by step(), never drift from it.
FlagsFollowState ==
  /\ enabled <=> state \in ENABLED_STATES
  /\ active <=> state \in ACTIVE_STATES
=============================================================================

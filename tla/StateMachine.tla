---------------------------- MODULE StateMachine ----------------------------
(***************************************************************************)
(* The engagement state machine of selfdrive/selfdrived/state.py, as pure  *)
(* operators, with the part of the EVENTS table of events.py that the      *)
(* composing modules use.  A frame is one 100 Hz step of selfdrived.       *)
(***************************************************************************)
EXTENDS Integers

CONSTANT SoftDisableFrames      \* int(SOFT_DISABLE_TIME / DT_CTRL): 300 in the code

\* The code's value is positive: a soft disable always warns for a while.
ASSUME SoftDisableAssumption == SoftDisableFrames \in Nat \ {0}

VARIABLES state, soft_disable_timer

ACTIVE_STATES == {"enabled", "softDisabling", "overriding"}
ENABLED_STATES == ACTIVE_STATES \cup {"preEnabled"}
States == ENABLED_STATES \cup {"disabled"}

ET == {"ENABLE", "PRE_ENABLE", "OVERRIDE_LATERAL", "OVERRIDE_LONGITUDINAL",
       "NO_ENTRY", "WARNING", "USER_DISABLE", "SOFT_DISABLE",
       "IMMEDIATE_DISABLE", "PERMANENT"}

\* EVENTS: the types under which an event name has an alert.
EVENTS ==
  [selfdriveInitializing |-> {"NO_ENTRY"},
   tooDistracted         |-> {"NO_ENTRY"},
   pcmEnable             |-> {"ENABLE"},
   pcmDisable            |-> {"USER_DISABLE"},
   pedalPressed          |-> {"USER_DISABLE", "NO_ENTRY"},
   preEnableStandstill   |-> {"PRE_ENABLE"},
   gasPressedOverride    |-> {"OVERRIDE_LONGITUDINAL"},
   steerOverride         |-> {"OVERRIDE_LATERAL"},
   belowSteerSpeed       |-> {"WARNING"},
   doorOpen              |-> {"SOFT_DISABLE", "NO_ENTRY"},
   overheat              |-> {"PERMANENT", "SOFT_DISABLE", "NO_ENTRY"},
   processNotRunning     |-> {"NO_ENTRY", "SOFT_DISABLE"},
   commIssue             |-> {"SOFT_DISABLE", "NO_ENTRY"},
   canError              |-> {"IMMEDIATE_DISABLE", "PERMANENT", "NO_ENTRY"},
   controlsMismatch      |-> {"IMMEDIATE_DISABLE", "NO_ENTRY"},
   cruiseMismatch        |-> {"PERMANENT"}]

EventNames == DOMAIN EVENTS

\* Events.contains: the event types present in a set of event names.
contains(events) == UNION {EVENTS[e] : e \in events}

Disables == {"IMMEDIATE_DISABLE", "USER_DISABLE"}
Overrides == {"OVERRIDE_LATERAL", "OVERRIDE_LONGITUDINAL"}

\* Where an accepted ENABLE leads (the DISABLED branch).
EntryState(types) ==
  IF "PRE_ENABLE" \in types THEN "preEnabled"
  ELSE IF Overrides \cap types # {} THEN "overriding" ELSE "enabled"

\* The enabled and overriding branches; they differ only in where they
\* stay, since both re-evaluate the override condition.
EnabledOrOverriding(types) ==
  IF "SOFT_DISABLE" \in types THEN "softDisabling"
  ELSE IF Overrides \cap types # {} THEN "overriding" ELSE "enabled"

SoftDisablingNext(timer, types) ==
  IF "SOFT_DISABLE" \notin types THEN "enabled"
  ELSE IF timer > 0 THEN "softDisabling" ELSE "disabled"

\* The branches of a non-disabled state when no disabling event is present.
WithoutDisable(st, timer, types) ==
  IF st \in {"enabled", "overriding"} THEN EnabledOrOverriding(types)
  ELSE IF st = "softDisabling" THEN SoftDisablingNext(timer, types)
  ELSE IF "PRE_ENABLE" \in types THEN "preEnabled" ELSE "enabled"

\* StateMachine.update: the new state, given the decremented timer.
NextState(st, timer, types) ==
  IF st = "disabled"
    THEN IF "ENABLE" \in types /\ "NO_ENTRY" \notin types THEN EntryState(types) ELSE "disabled"
    ELSE IF Disables \cap types # {} THEN "disabled" ELSE WithoutDisable(st, timer, types)

Decrement(timer) == IF timer > 0 THEN timer - 1 ELSE 0

\* Mutant: the timer restarts in every softDisabling frame.
MutNextTimer(st, timer, types) ==
  IF NextState(st, Decrement(timer), types) = "softDisabling"
    THEN SoftDisableFrames ELSE Decrement(timer)

\* StateMachine.update: soft_disable_timer restarts on entering softDisabling.
NextTimer(st, timer, types) ==
  IF st # "softDisabling" /\ NextState(st, Decrement(timer), types) = "softDisabling"
    THEN SoftDisableFrames ELSE Decrement(timer)

\* The alert type of a state that openpilot stays in or moves to on its own.
StateTypes ==
  [enabled |-> {}, disabled |-> {}, preEnabled |-> {"PRE_ENABLE"}, overriding |-> Overrides,
   softDisabling |-> {"SOFT_DISABLE"}]

\* StateMachine.update: current_alert_types.
AlertTypes(st, timer, types) ==
  LET new == NextState(st, timer, types)
      first == IF "IMMEDIATE_DISABLE" \in types THEN "IMMEDIATE_DISABLE" ELSE "USER_DISABLE"
      entry == IF "NO_ENTRY" \in types THEN {"NO_ENTRY"} ELSE {"ENABLE"}
      own == IF st = "disabled" THEN IF "ENABLE" \in types THEN entry ELSE {}
             ELSE IF Disables \cap types # {} THEN {first} ELSE StateTypes[new]
  IN  {"PERMANENT"} \cup own \cup (IF new \in ACTIVE_STATES THEN {"WARNING"} ELSE {})

=============================================================================

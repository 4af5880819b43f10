-------------------------- MODULE SelfdrivedProofs --------------------------
(***************************************************************************)
(* Proofs about Selfdrived and about Alerts, which run on the same state   *)
(* machine, for every value of their constants.                            *)
(***************************************************************************)
EXTENDS Selfdrived, Alerts, TLAPS, WellFoundedInduction

\* The soft-disable budget: the frames spent under a soft-disable condition
\* and the frames the timer still grants never exceed SOFT_DISABLE_TIME + 2.
SoftBudget ==
  /\ state = "softDisabling" => soft_disable_timer >= 1
                                /\ softFor + soft_disable_timer <= SoftDisableFrames + 2
  /\ state \in {"enabled", "overriding"} => softFor <= 1
  /\ state \in {"disabled", "preEnabled"} => softFor = 0

\* The inductive invariant: types, the flags, the two bounds and the brake.
IInv ==
  /\ TypeOK /\ FlagsFollowState /\ SoftBudget
  /\ MismatchDisengages /\ BrakeDisengages
  /\ FailedChecksDisable
  /\ ~initialized => state = "disabled"

\* An event's types are among the types contained in a set that has it.
LEMMA ContainsEvent ==
  ASSUME NEW S, NEW e \in S, NEW t \in EVENTS[e]
  PROVE  t \in contains(S)
BY DEF contains

\* What the table says of the events the safety arguments rest on.
LEMMA TableFacts ==
  /\ {"IMMEDIATE_DISABLE", "NO_ENTRY"} \subseteq EVENTS["controlsMismatch"]
  /\ {"IMMEDIATE_DISABLE", "NO_ENTRY"} \subseteq EVENTS["canError"]
  /\ {"USER_DISABLE", "NO_ENTRY"} \subseteq EVENTS["pedalPressed"]
  /\ {"SOFT_DISABLE", "NO_ENTRY"} \subseteq EVENTS["commIssue"]
  /\ "PRE_ENABLE" \in EVENTS["preEnableStandstill"]
BY DEF EVENTS

\* The state machine maps states to states and never raises a disabled state
\* without ENABLE; a disabling type always leads to "disabled" from any other.
LEMMA NextStateType ==
  ASSUME NEW st \in States, NEW n \in Nat, NEW ts
  PROVE  NextState(st, n, ts) \in States
BY DEF NextState, States, ENABLED_STATES, ACTIVE_STATES, EntryState, WithoutDisable,
       EnabledOrOverriding, SoftDisablingNext

LEMMA DisablesWin ==
  ASSUME NEW st \in States, NEW n \in Nat, NEW ts,
         Disables \cap ts # {}, "NO_ENTRY" \in ts
  PROVE  NextState(st, n, ts) = "disabled"
BY DEF NextState

\* Every event that RunStateMachine is given is an event of the table.
LEMMA EventsType ==
  ASSUME NEW cs \in CarState, NEW ok \in BOOLEAN, NEW car \in SUBSET CarEvents,
         NEW device \in SUBSET DeviceEvents, NEW m, NEW c
  PROVE  update_events(cs, ok, car, device, m, c) \subseteq EventNames
<1> DEFINE mine == {"preEnableStandstill", "gasPressedOverride", "pcmEnable", "pcmDisable",
                    "pedalPressed", "processNotRunning", "canError", "commIssue",
                    "controlsMismatch", "cruiseMismatch"}
<1>1. update_events(cs, ok, car, device, m, c) \subseteq (mine \cup car \cup device)
  BY DEF update_events, WithSystemEvents, CarEventsOf
<1>2. mine \cup car \cup device \subseteq EventNames
  BY SelfdrivedAssumption DEF EventNames, EVENTS
<1> QED BY <1>1, <1>2

\* The types behind the safety arguments are there when their condition holds.
LEMMA RaisedTypes ==
  ASSUME NEW cs \in CarState, NEW ok \in BOOLEAN, NEW car \in SUBSET CarEvents,
         NEW device \in SUBSET DeviceEvents, NEW m \in Nat, NEW c \in Nat
  PROVE  LET ts == contains(update_events(cs, ok, car, device, m, c)) IN
         /\ m >= MismatchLimit => Disables \cap ts # {} /\ "NO_ENTRY" \in ts
         /\ ~cs.canValid => Disables \cap ts # {} /\ "NO_ENTRY" \in ts
         /\ cs.canValid /\ PedalPressed(cs) => Disables \cap ts # {} /\ "NO_ENTRY" \in ts
         /\ cs.canValid /\ cs.pedal = "brakeStandstill" => "PRE_ENABLE" \in ts
         /\ ~ok => "NO_ENTRY" \in ts /\ {"SOFT_DISABLE", "IMMEDIATE_DISABLE"} \cap ts # {}
<1> DEFINE ev == update_events(cs, ok, car, device, m, c)
           early == CarEventsOf(cs, car) \cup (device \ {"processNotRunning"})
                      \cup (IF m >= MismatchLimit THEN {"controlsMismatch"} ELSE {})
           late == (device \cap {"processNotRunning"})
                      \cup (IF cs.canValid THEN {} ELSE {"canError"})
<1>1. m >= MismatchLimit => "controlsMismatch" \in ev
  BY DEF update_events, WithSystemEvents
<1>2. ~cs.canValid => "canError" \in ev
  BY DEF update_events, WithSystemEvents
<1>3. cs.canValid /\ PedalPressed(cs) => "pedalPressed" \in ev
  BY DEF update_events, WithSystemEvents, CarEventsOf
<1>4. cs.canValid /\ cs.pedal = "brakeStandstill" => "preEnableStandstill" \in ev
  BY DEF update_events, WithSystemEvents, CarEventsOf
<1>5. ~ok => \/ "commIssue" \in ev
             \/ /\ "NO_ENTRY" \in contains(early \cup late)
                /\ {"SOFT_DISABLE", "IMMEDIATE_DISABLE"} \cap contains(early \cup late) # {}
  BY DEF update_events, WithSystemEvents
<1>6. early \cup late \subseteq ev
  BY DEF update_events, WithSystemEvents
<1>7. contains(early \cup late) \subseteq contains(ev)
  BY <1>6 DEF contains
<1>8. ASSUME NEW e \in ev PROVE EVENTS[e] \subseteq contains(ev)
  BY DEF contains
<1> HIDE DEF ev, early, late
<1> QED BY <1>1, <1>2, <1>3, <1>4, <1>5, <1>7, <1>8, TableFacts DEF Disables, ev

\* A step of the state machine keeps the soft-disable budget, from any events.
LEMMA BudgetKept ==
  ASSUME IInv, NEW ts, RunStateMachine(ts),
         softFor' = IF active' /\ "SOFT_DISABLE" \in ts THEN softFor + 1 ELSE 0
  PROVE  SoftBudget' /\ soft_disable_timer' \in 0..SoftDisableFrames /\ softFor' \in Nat
<1> USE SoftDisableAssumption DEF IInv, TypeOK
<1>1. Decrement(soft_disable_timer) \in Nat /\ Decrement(soft_disable_timer) <= SoftDisableFrames
  BY DEF Decrement
<1>2. soft_disable_timer' \in 0..SoftDisableFrames
  BY <1>1 DEF RunStateMachine, NextTimer
<1>3. softFor' \in Nat
  OBVIOUS
<1>4. state' = "softDisabling" => soft_disable_timer' >= 1
                                 /\ softFor' + soft_disable_timer' <= SoftDisableFrames + 2
  <2> SUFFICES ASSUME state' = "softDisabling" PROVE soft_disable_timer' >= 1
                                 /\ softFor' + soft_disable_timer' <= SoftDisableFrames + 2
    OBVIOUS
  <2>1. CASE state = "softDisabling"
    BY <2>1, <1>1 DEF RunStateMachine, NextTimer, NextState, WithoutDisable,
       SoftDisablingNext, SoftBudget, Decrement, ACTIVE_STATES
  <2>2. CASE state # "softDisabling"
    <3>1. soft_disable_timer' = SoftDisableFrames
      BY <2>2 DEF RunStateMachine, NextTimer
    <3>2. softFor <= 1
      BY <2>2 DEF SoftBudget, States, ENABLED_STATES, ACTIVE_STATES
    <3> QED BY <3>1, <3>2
  <2> QED BY <2>1, <2>2
<1>5. state' \in {"enabled", "overriding"} => softFor' <= 1
  <2> SUFFICES ASSUME state' \in {"enabled", "overriding"}, "SOFT_DISABLE" \in ts
               PROVE  softFor = 0
    OBVIOUS
  <2> QED BY DEF RunStateMachine, NextState, WithoutDisable, SoftDisablingNext,
                 EnabledOrOverriding, EntryState, SoftBudget, States, ENABLED_STATES, ACTIVE_STATES
<1>6. state' \in {"disabled", "preEnabled"} => softFor' = 0
  BY DEF RunStateMachine, ACTIVE_STATES
<1> QED BY <1>2, <1>3, <1>4, <1>5, <1>6 DEF SoftBudget

\* Pressing the brake leaves the machine inactive, and disabled while moving.
LEMMA BrakeKept ==
  ASSUME IInv, NEW cs \in CarState, NEW ts, RunStateMachine(ts),
         ~cs.canValid => Disables \cap ts # {} /\ "NO_ENTRY" \in ts,
         cs.canValid /\ PedalPressed(cs) => Disables \cap ts # {} /\ "NO_ENTRY" \in ts,
         cs.canValid /\ cs.pedal = "brakeStandstill" => "PRE_ENABLE" \in ts
  PROVE  /\ cs.pedal \in Brakes => ~active'
         /\ cs.pedal = "brakeMoving" => ~enabled'
<1> USE DEF IInv, TypeOK
<1>0. Decrement(soft_disable_timer) \in Nat
  BY SoftDisableAssumption DEF Decrement
<1>1. CASE ~cs.canValid \/ PedalPressed(cs)
  <2>1. state' = "disabled"
    BY <1>0, <1>1, DisablesWin DEF RunStateMachine
  <2> QED BY <2>1 DEF RunStateMachine, ENABLED_STATES, ACTIVE_STATES
<1>2. CASE cs.canValid /\ ~PedalPressed(cs)
  <2> SUFFICES ASSUME cs.pedal \in Brakes
               PROVE  cs.pedal # "brakeMoving" /\ ~active'
    BY DEF Brakes
  <2>1. cs.pedal = "brakeStandstill" /\ CS.pedal \in Brakes
    BY <1>2 DEF PedalPressed, Brakes
  <2>2. state \in {"disabled", "preEnabled"} /\ "PRE_ENABLE" \in ts
    BY <2>1, <1>2 DEF BrakeDisengages, FlagsFollowState, States, ENABLED_STATES
  <2>3. state' \in {"disabled", "preEnabled"}
    BY <2>2 DEF RunStateMachine, NextState, EntryState, WithoutDisable
  <2> QED BY <2>1, <2>3 DEF RunStateMachine, ACTIVE_STATES
<1> QED BY <1>1, <1>2

\* One step of selfdrived preserves the inductive invariant.
LEMMA StepKeepsIInv ==
  ASSUME IInv, NEW cs \in CarState, NEW ok \in BOOLEAN, NEW allowed \in BOOLEAN,
         NEW car \in SUBSET CarEvents, NEW device \in SUBSET DeviceEvents,
         Step(cs, ok, allowed, car, device)
  PROVE  IInv'
<1> USE SelfdrivedAssumption, SoftDisableAssumption
<1>1. frame' \in 0..(InitFrames + 1) /\ initialized' \in BOOLEAN
  BY DEF IInv, TypeOK, Step, InitializedAfter
<1>2. mismatch_counter' \in Nat /\ mismatch_counter' <= MismatchLimit
  BY DEF IInv, TypeOK, Step, MismatchAfter, MismatchDisengages
<1>3. cruise_mismatch_counter' \in 0..(CruiseMismatchLimit + 1)
  BY DEF IInv, TypeOK, Step, CruiseMismatchAfter
<1>4. disengage_on_accelerator' \in BOOLEAN /\ CS' = cs /\ checks' = ok /\ controlsAllowed' = allowed
  BY DEF IInv, TypeOK, Step
<1>5. initialized => initialized'
  BY DEF Step, InitializedAfter
<1>6. CASE ~initialized'
  <2>1. ~initialized /\ state = "disabled" /\ ~enabled /\ ~active
    BY <1>5, <1>6 DEF IInv, TypeOK, FlagsFollowState, ENABLED_STATES, ACTIVE_STATES
  <2>2. UNCHANGED machine /\ events' = {"selfdriveInitializing"}
    BY <1>6 DEF Step
  <2>3. softFor' = 0
    BY <2>1, <2>2 DEF Step, machine
  <2>4. events' \subseteq EventNames
    BY <2>2 DEF EventNames, EVENTS
  <2>5. TypeOK'
    BY <1>1, <1>2, <1>3, <1>4, <2>2, <2>3, <2>4 DEF IInv, TypeOK, machine
  <2> QED BY <1>6, <2>1, <2>2, <2>3, <2>5
      DEF IInv, machine, FlagsFollowState, SoftBudget, MismatchDisengages, BrakeDisengages,
          FailedChecksDisable
<1>7. CASE initialized'
  <2> DEFINE ev == update_events(cs, ok, car, device, mismatch_counter', cruise_mismatch_counter')
  <2>1. events' = ev /\ RunStateMachine(contains(ev))
    BY <1>7 DEF Step
  <2>2. softFor' = IF active' /\ "SOFT_DISABLE" \in contains(ev) THEN softFor + 1 ELSE 0
    BY <2>1 DEF Step
  <2>3. events' \subseteq EventNames
    BY <2>1, EventsType
  <2>4. /\ mismatch_counter' >= MismatchLimit =>
             Disables \cap contains(ev) # {} /\ "NO_ENTRY" \in contains(ev)
        /\ ~cs.canValid => Disables \cap contains(ev) # {} /\ "NO_ENTRY" \in contains(ev)
        /\ cs.canValid /\ PedalPressed(cs) =>
             Disables \cap contains(ev) # {} /\ "NO_ENTRY" \in contains(ev)
        /\ cs.canValid /\ cs.pedal = "brakeStandstill" => "PRE_ENABLE" \in contains(ev)
        /\ ~ok => /\ "NO_ENTRY" \in contains(ev)
                  /\ {"SOFT_DISABLE", "IMMEDIATE_DISABLE"} \cap contains(ev) # {}
    <3>1. cruise_mismatch_counter' \in Nat
      BY <1>3
    <3> QED BY <1>2, <3>1, RaisedTypes
  <2> HIDE DEF ev
  <2>5. Decrement(soft_disable_timer) \in Nat
    BY DEF IInv, TypeOK, Decrement
  <2>6. state' \in States
    BY <2>1, <2>5, NextStateType DEF RunStateMachine, IInv, TypeOK
  <2>7. FlagsFollowState' /\ enabled' \in BOOLEAN /\ active' \in BOOLEAN
    <3>1. enabled' = (state' \in ENABLED_STATES) /\ active' = (state' \in ACTIVE_STATES)
      BY <2>1 DEF RunStateMachine
    <3>2. enabled' \in BOOLEAN /\ active' \in BOOLEAN
      BY <3>1
    <3> QED BY <3>1, <3>2, Zenon DEF FlagsFollowState
  <2>8. SoftBudget' /\ soft_disable_timer' \in 0..SoftDisableFrames /\ softFor' \in Nat
    BY <2>1, <2>2, BudgetKept
  <2>9. MismatchDisengages'
    <3>1. mismatch_counter' >= MismatchLimit => state' = "disabled"
      BY <2>1, <2>4, <2>5, DisablesWin DEF RunStateMachine, IInv, TypeOK
    <3> QED BY <3>1, <1>2, <2>7 DEF MismatchDisengages, FlagsFollowState, ENABLED_STATES, ACTIVE_STATES
  <2>10. BrakeDisengages'
    BY <2>1, <2>4, <1>4, BrakeKept DEF BrakeDisengages
  <2>11. FailedChecksDisable'
    BY <2>1, <2>4, <1>4 DEF FailedChecksDisable
  <2>12. TypeOK'
    BY <1>1, <1>2, <1>3, <1>4, <2>3, <2>6, <2>7, <2>8 DEF TypeOK
  <2> QED BY <1>7, <2>7, <2>8, <2>9, <2>10, <2>11, <2>12 DEF IInv
<1> QED BY <1>6, <1>7, <1>1

\* The inductive invariant holds in every reachable state: with it the type
\* invariant and the safety properties of selfdrived.
THEOREM SelfdrivedInvariant == Spec => []IInv
<1>1. Init => IInv
  <2> SUFFICES ASSUME Init PROVE IInv
    OBVIOUS
  <2>1. CS \in CarState
    BY DEF Init, CarState, Pedals
  <2>2. TypeOK
    <3>1. /\ soft_disable_timer \in 0..SoftDisableFrames /\ frame \in 0..(InitFrames + 1)
          /\ mismatch_counter \in 0..MismatchLimit
          /\ cruise_mismatch_counter \in 0..(CruiseMismatchLimit + 1) /\ softFor \in Nat
      BY SelfdrivedAssumption, SoftDisableAssumption DEF Init
    <3>2. /\ state \in States /\ enabled \in BOOLEAN /\ active \in BOOLEAN
          /\ initialized \in BOOLEAN /\ disengage_on_accelerator \in BOOLEAN
          /\ checks \in BOOLEAN /\ controlsAllowed \in BOOLEAN /\ events \subseteq EventNames
      BY Zenon DEF Init, States
    <3> QED BY <2>1, <3>1, <3>2 DEF TypeOK
  <2>3. FlagsFollowState
    BY DEF Init, FlagsFollowState, ENABLED_STATES, ACTIVE_STATES
  <2> QED BY <2>2, <2>3 DEF Init, IInv, SoftBudget, MismatchDisengages, BrakeDisengages,
                            FailedChecksDisable
<1>2. IInv /\ [Next]_vars => IInv'
  <2> SUFFICES ASSUME IInv, [Next]_vars PROVE IInv'
    OBVIOUS
  <2>1. CASE AnyStep
    <3>1. PICK cs \in CarState, ok \in BOOLEAN, allowed \in BOOLEAN,
               car \in AtMostOne(CarEvents), device \in AtMostOne(DeviceEvents) :
                 Step(cs, ok, allowed, car, device)
      BY <2>1 DEF AnyStep
    <3>2. car \in SUBSET CarEvents /\ device \in SUBSET DeviceEvents
      BY DEF AtMostOne
    <3> QED BY <3>1, <3>2, StepKeepsIInv
  <2>2. CASE ParamsThread
    BY <2>2 DEF ParamsThread, machine, IInv, TypeOK, FlagsFollowState, SoftBudget,
                MismatchDisengages, BrakeDisengages, FailedChecksDisable
  <2>3. CASE UNCHANGED vars
    BY <2>3 DEF vars, machine, IInv, TypeOK, FlagsFollowState, SoftBudget,
                MismatchDisengages, BrakeDisengages, FailedChecksDisable
  <2> QED BY <2>1, <2>2, <2>3 DEF Next
<1> QED BY <1>1, <1>2, PTL DEF Spec

\* Type correctness of selfdrived's state, for any limits and event sets.
THEOREM SelfdrivedTypeOK == Spec => []TypeOK
<1>1. IInv => TypeOK BY DEF IInv
<1> QED BY <1>1, SelfdrivedInvariant, PTL

\* Stepping on the brake always ends the engagement.
THEOREM BrakeTheorem == Spec => []BrakeDisengages
<1>1. IInv => BrakeDisengages BY DEF IInv
<1> QED BY <1>1, SelfdrivedInvariant, PTL

\* A soft-disable condition actuates for at most SOFT_DISABLE_TIME plus a frame.
THEOREM SoftDisableTheorem == Spec => []SoftDisableDeadline
<1>1. IInv => SoftDisableDeadline
  BY SoftDisableAssumption
     DEF IInv, TypeOK, SoftBudget, SoftDisableDeadline, States, ENABLED_STATES, ACTIVE_STATES
<1> QED BY <1>1, SelfdrivedInvariant, PTL

\* The mismatch limit is never reached while engaged.
THEOREM MismatchTheorem == Spec => []MismatchDisengages
<1>1. IInv => MismatchDisengages BY DEF IInv
<1> QED BY <1>1, SelfdrivedInvariant, PTL

\* A failed input check always blocks entry and disables.
THEOREM FailedChecksTheorem == Spec => []FailedChecksDisable
<1>1. IInv => FailedChecksDisable BY DEF IInv
<1> QED BY <1>1, SelfdrivedInvariant, PTL

-----------------------------------------------------------------------------
(***************************************************************************)
(* The alerts, on the same state machine.                                  *)
(***************************************************************************)

\* What an entry of an event type says of the state and of its own past.
Entitled ==
  \A k \in Keys :
    /\ Active(alerts[k]) =>
         \/ alerts[k].priority = Priority[k[2]]
         \/ k[2] = "SOFT_DISABLE" /\ alerts[k].priority = HIGHEST
    /\ k[2] = "NO_ENTRY" /\ state \in ENABLED_STATES => ~Active(alerts[k])
    /\ k[2] = "WARNING" /\ state \notin ACTIVE_STATES => ~Active(alerts[k])
    /\ k[2] = "SOFT_DISABLE" /\ alerts[k].added => state = "softDisabling"
    /\ k[2] = "ENABLE" /\ alerts[k].added => state # "disabled"
    /\ k[2] \in {"USER_DISABLE", "IMMEDIATE_DISABLE"} /\ alerts[k].added => state = "disabled"
    /\ k[2] \in {"ENABLE", "USER_DISABLE"} /\ Active(alerts[k]) =>
         alerts[k].age + alerts[k].left <= MaxAge

\* The entry holds a soft disable alert of the last frame.
SoftAdded(k) == k[2] = "SOFT_DISABLE" /\ alerts[k].added

\* A soft disable alert of the last frame is no older than the soft disable, turns into a
\* takeover alert in time, and is younger than any alert about engaging or disengaging.
SoftAlerts ==
  \A k \in Keys : SoftAdded(k) =>
    /\ alerts[k].left >= 1
    /\ alerts[k].age + soft_disable_timer <= SoftDisableFrames
    /\ soft_disable_timer < TakeoverFrames =>
         alerts[k].priority = HIGHEST /\ alerts[k].age + alerts[k].left >= TakeoverDuration
    /\ alerts[k].priority \in {3, HIGHEST}
    /\ \A j \in Keys : j[2] \in {"ENABLE", "USER_DISABLE"} /\ Active(alerts[j]) =>
                         alerts[k].age < alerts[j].age

\* Every frame of a soft disable raises such an alert, and the timer still runs.
SoftDisabling == state = "softDisabling" => soft_disable_timer >= 1 /\ \E k \in Keys : SoftAdded(k)

\* Once openpilot disengaged by itself, a takeover alert outlasts the time it promises.
Announced ==
  /\ state # "disabled" => since = MaxAge
  /\ since <= TakeoverDuration - SoftDisableFrames =>
       \E k \in Keys : /\ k[2] \in {"SOFT_DISABLE", "IMMEDIATE_DISABLE"}
                       /\ alerts[k].priority = HIGHEST
                       /\ since + alerts[k].left >= TakeoverDuration - SoftDisableFrames

\* The inductive invariant of the alerts.
AlertsInv ==
  /\ AlertsTypeOK /\ Entitled /\ SoftAlerts /\ SoftDisabling /\ Announced
  /\ current_alert \in Shown(alerts)

\* Every nonempty set of naturals has a least element.
LEMMA LeastNumber ==
  ASSUME NEW T \in SUBSET Nat, T # {}
  PROVE  \E x \in T : \A y \in T : x <= y
<1> DEFINE smaller == {ss \in Nat \X Nat : ss[1] < ss[2]}
<1>1. IsWellFoundedOn(smaller, Nat)
  BY NatLessThanWellFounded DEF OpToRel
<1> HIDE DEF smaller
<1>2. PICK x \in T : \A y \in T : ~(<<y, x>> \in smaller)
  BY <1>1, WFMin
<1>3. \A y \in T : ~(y < x)
  BY <1>2 DEF smaller
<1> QED BY <1>3

\* An alert that was just raised is no older than the timer that was just set.
LEMMA YoungAlert == ASSUME NEW age, age = 0, NEW t \in 0..SoftDisableFrames
                    PROVE  age + t <= SoftDisableFrames
BY SoftDisableAssumption

\* The larger of two numbers.
LEMMA MaxOfTwo ==
  ASSUME NEW a \in Int, NEW b \in Int
  PROVE  Max({a, b}) \in {a, b} /\ Max({a, b}) >= a /\ Max({a, b}) >= b
<1>1. \E x \in {a, b} : \A y \in {a, b} : x >= y
  <2>1. CASE a >= b BY <2>1
  <2>2. CASE ~(a >= b) BY <2>2
  <2> QED BY <2>1, <2>2
<1> QED BY <1>1 DEF Max

\* The saturation bound of the counters is the largest duration: the event types are
\* finitely many, so the durations have a least upper bound.
LEMMA MaxAgeFacts ==
  /\ MaxAge \in Nat /\ MaxAge >= TakeoverDuration /\ MaxAge >= 1
  /\ \A et \in ET : Duration[et] \in Nat /\ Duration[et] <= MaxAge
<1> DEFINE all == {Duration[et] : et \in ET} \cup {TakeoverDuration}
           bounds == {n \in Nat : \A d \in all : d <= n}
<1>1. \A et \in ET : Duration[et] \in Nat
  BY AlertsAssumption
<1>2. all \subseteq Nat /\ TakeoverDuration \in all
  BY <1>1, AlertsAssumption
<1>3. bounds # {}
  <2> DEFINE sum == TakeoverDuration + Duration["ENABLE"] + Duration["PRE_ENABLE"]
                      + Duration["OVERRIDE_LATERAL"] + Duration["OVERRIDE_LONGITUDINAL"]
                      + Duration["NO_ENTRY"] + Duration["WARNING"] + Duration["USER_DISABLE"]
                      + Duration["SOFT_DISABLE"] + Duration["IMMEDIATE_DISABLE"] + Duration["PERMANENT"]
  <2>1. sum \in Nat /\ TakeoverDuration <= sum /\ \A et \in ET : Duration[et] <= sum
    BY <1>1, AlertsAssumption DEF ET
  <2> QED BY <2>1
<1>4. PICK least \in bounds : \A n \in bounds : least <= n
  BY <1>3, LeastNumber
<1>5. least \in all
  <2> SUFFICES ASSUME least \notin all PROVE FALSE
    OBVIOUS
  <2>1. \A d \in all : d <= least - 1
    BY <1>2
  <2>2. least - 1 \in bounds
    BY <1>2, <2>1
  <2> QED BY <1>4, <2>2
<1>6. MaxAge \in all /\ \A d \in all : MaxAge >= d
  BY <1>4, <1>5 DEF MaxAge, Max
<1> QED BY <1>2, <1>6, AlertsAssumption

\* What the table says of the types of an event, and a key of each of them.
LEMMA EventTypes == \A e \in EventNames : EVENTS[e] \subseteq ET
BY DEF EventNames, EVENTS, ET

LEMMA KeyTypes == \A k \in Keys : k[1] \in Events /\ k[2] \in EVENTS[k[1]] /\ k[2] \in ET /\ k = <<k[1], k[2]>>
BY AlertsAssumption, EventTypes DEF Keys

LEMMA KeyOf == \A e \in Events : \A et \in EVENTS[e] : <<e, et>> \in Keys
BY DEF Keys

\* Which alert types the state machine reports, and where it is then.
LEMMA AlertTypesFacts ==
  ASSUME NEW st \in States, NEW n \in Nat, NEW ts
  PROVE  LET at == AlertTypes(st, n, ts)
             new == NextState(st, n, ts)
         IN  /\ "WARNING" \in at <=> new \in ACTIVE_STATES
             /\ "SOFT_DISABLE" \in at <=> new = "softDisabling"
             /\ "SOFT_DISABLE" \in at => "SOFT_DISABLE" \in ts /\ st # "disabled"
             /\ "ENABLE" \in at => st = "disabled" /\ new # "disabled"
             /\ "USER_DISABLE" \in at => st # "disabled" /\ new = "disabled"
             /\ "IMMEDIATE_DISABLE" \in at => st # "disabled" /\ new = "disabled"
             /\ st # "disabled" /\ new = "disabled" /\ "USER_DISABLE" \notin ts =>
                  \/ "IMMEDIATE_DISABLE" \in at \cap ts
                  \/ st = "softDisabling" /\ n = 0 /\ "SOFT_DISABLE" \in ts
BY DEF AlertTypes, NextState, States, ENABLED_STATES, ACTIVE_STATES, EntryState, WithoutDisable,
       EnabledOrOverriding, SoftDisablingNext, Disables, Overrides, StateTypes

Entry == [age : 0..MaxAge, left : -1..MaxAge, added : BOOLEAN, priority : 0..HIGHEST]

\* One frame of an entry, as it is kept when its alert is not raised again.
LEMMA AgedEntry ==
  ASSUME NEW en \in Entry
  PROVE  /\ Aged(en) \in Entry
         /\ en.left >= 1 => /\ Aged(en).left = en.left - 1
                            /\ Aged(en).age = IF en.age = MaxAge THEN MaxAge ELSE en.age + 1
                            /\ Aged(en).priority = en.priority /\ Aged(en).added = en.added
         /\ Active(Aged(en)) <=> en.left >= 1
<1> USE MaxAgeFacts
<1>0. /\ en.age \in 0..MaxAge /\ en.left \in -1..MaxAge /\ en.added \in BOOLEAN
      /\ en.priority \in 0..HIGHEST
  BY DEF Entry
<1>1. CASE en.left < 1
  <2>1. Aged(en) = Gone
    BY <1>1 DEF Aged
  <2>2. Gone \in Entry /\ ~Active(Gone)
    BY DEF Gone, Entry, HIGHEST, Active
  <2> QED BY <1>0, <1>1, <2>1, <2>2
<1>2. CASE ~(en.left < 1)
  <2> DEFINE age == IF en.age = MaxAge THEN en.age ELSE en.age + 1
  <2>1. Aged(en) = [age |-> age, left |-> en.left - 1, added |-> en.added, priority |-> en.priority]
    BY <1>2 DEF Aged, Entry
  <2>2. en.left >= 1 /\ en.left - 1 \in -1..MaxAge /\ en.left - 1 >= 0
    BY <1>0, <1>2
  <2>3. age \in 0..MaxAge
    BY <1>0
  <2>4. Aged(en) \in Entry
    <3> HIDE DEF age
    <3> QED BY <2>1, <2>2, <2>3, <1>0 DEF Entry
  <2> QED BY <2>1, <2>2, <2>4 DEF Active
<1> QED BY <1>1, <1>2

\* An alert that is raised: it lasts at least another frame and, counted from the frame
\* its entry started, at least its duration.
LEMMA RaisedEntry ==
  ASSUME NEW en \in Entry, NEW alert, alert.duration \in 0..MaxAge, alert.priority \in 0..HIGHEST
  PROVE  LET w == WithAlert(en, alert) IN
         /\ w \in Entry /\ w.added /\ w.left >= 1 /\ w.priority = alert.priority
         /\ w.age + w.left >= alert.duration
         /\ w.age = 0 \/ (en.left >= 1 /\ en.added /\ w.age = Aged(en).age)
         /\ ~en.added => w.age = 0 /\ w.left <= MaxAge
<1> DEFINE just == Active(Aged(en)) /\ en.added
           start == IF just THEN Aged(en).age ELSE 0
           w == WithAlert(en, alert)
<1>1. start \in 0..MaxAge
  BY AgedEntry, MaxAgeFacts DEF Entry
<1>2. w = [age |-> start, left |-> Max({1, alert.duration - start}), added |-> TRUE,
           priority |-> alert.priority]
  BY DEF WithAlert
<1>3. /\ Max({1, alert.duration - start}) \in {1, alert.duration - start}
      /\ Max({1, alert.duration - start}) >= 1
      /\ Max({1, alert.duration - start}) >= alert.duration - start
  <2>1. alert.duration - start \in Int
    BY <1>1, MaxAgeFacts
  <2> HIDE DEF start
  <2> QED BY <2>1, MaxOfTwo
<1>4. start = 0 \/ (en.left >= 1 /\ en.added /\ start = Aged(en).age)
  BY AgedEntry
<1>5. ~en.added => start = 0
  OBVIOUS
<1> HIDE DEF start, w
<1> QED BY <1>1, <1>2, <1>3, <1>4, <1>5, MaxAgeFacts DEF Entry, HIGHEST, w

\* The alert of an event type fits an entry.
LEMMA AlertOfType ==
  ASSUME NEW et \in ET, NEW timer \in Nat
  PROVE  LET alert == AlertOf(et, timer) IN
         /\ alert.duration \in 0..MaxAge /\ alert.priority \in 0..HIGHEST
         /\ \/ alert.priority = Priority[et]
            \/ et = "SOFT_DISABLE" /\ alert.priority = HIGHEST
         /\ et = "SOFT_DISABLE" /\ timer < TakeoverFrames =>
              alert.priority = HIGHEST /\ alert.duration = TakeoverDuration
         /\ et = "SOFT_DISABLE" => alert.priority \in {3, HIGHEST}
         /\ et = "IMMEDIATE_DISABLE" =>
              alert.priority = HIGHEST /\ alert.duration = TakeoverDuration
BY MaxAgeFacts, AlertsAssumption DEF AlertOf, Priority, ET, HIGHEST

LEMMA NoneIsNoKey == None \notin Keys
BY KeyTypes, AlertsAssumption DEF None, EventNames, EVENTS

\* What is shown is active and outranked by nothing active, and something is shown
\* whenever an entry is active: priorities are bounded and ages are naturals.
LEMMA ShownAlert ==
  ASSUME NEW entries \in [Keys -> Entry], NEW c \in Shown(entries)
  PROVE  /\ c # None => /\ c \in Keys /\ Active(entries[c])
                        /\ \A j \in Keys : Active(entries[j]) => ~Outranks(entries[j], entries[c])
         /\ (\E k \in Keys : Active(entries[k])) => c # None
<1> DEFINE shown == {k \in Keys : Active(entries[k])}
           best == {k \in shown : \A j \in shown : ~Outranks(entries[j], entries[k])}
<1>1. c \in IF best = {} THEN {None} ELSE best
  BY DEF Shown
<1>2. None \notin Keys
  BY NoneIsNoKey
<1>3. shown # {} => best # {}
  <2> SUFFICES ASSUME shown # {} PROVE best # {}
    OBVIOUS
  <2> DEFINE lacks == {HIGHEST - entries[k].priority : k \in shown}
  <2>1. \A k \in Keys : entries[k].priority \in 0..HIGHEST /\ entries[k].age \in Nat
    BY MaxAgeFacts DEF Entry
  <2>2. PICK p \in lacks : \A q \in lacks : p <= q
    <3>1. lacks \in SUBSET Nat /\ lacks # {}
      BY <2>1 DEF HIGHEST
    <3> QED BY <3>1, LeastNumber
  <2> DEFINE top == {k \in shown : HIGHEST - entries[k].priority = p}
             ages == {entries[k].age : k \in top}
  <2>3. PICK a \in ages : \A b \in ages : a <= b
    <3>1. ages \in SUBSET Nat /\ ages # {}
      BY <2>1, <2>2
    <3> QED BY <3>1, LeastNumber
  <2>4. PICK k \in top : entries[k].age = a
    BY <2>3
  <2>5. ASSUME NEW j \in shown PROVE ~Outranks(entries[j], entries[k])
    <3>0. k \in Keys /\ j \in Keys /\ HIGHEST - entries[j].priority \in lacks
      OBVIOUS
    <3>1. entries[j].priority <= entries[k].priority
      <4>1. p <= HIGHEST - entries[j].priority /\ p = HIGHEST - entries[k].priority
        BY <2>2, <3>0
      <4>2. entries[j].priority \in 0..5 /\ entries[k].priority \in 0..5
        BY <2>1, <3>0 DEF HIGHEST
      <4> QED BY <4>1, <4>2 DEF HIGHEST
    <3>2. entries[j].priority = entries[k].priority => entries[k].age <= entries[j].age
      BY <2>3, <2>4
    <3> QED BY <3>1, <3>2, <2>1 DEF Outranks, HIGHEST
  <2>6. k \in best
    BY <2>5
  <2> QED BY <2>6
<1> QED BY <1>1, <1>2, <1>3

\* One frame keeps the invariant.
LEMMA AlertsStepKeeps ==
  ASSUME AlertsInv, NEW names \in SUBSET Events, AlertsStep(names)
  PROVE  AlertsInv'
<1> DEFINE types == contains(names)
           timer == Decrement(soft_disable_timer)
           at == AlertTypes(state, timer, types)
           cleared == Cleared(state' \in ENABLED_STATES, at)
           created == create_alerts(names, at, CountersAfter)
           alert(k) == AlertOf(k[2], soft_disable_timer')
<1> USE SoftDisableAssumption, AlertsAssumption
<1>1. /\ timer \in Nat /\ timer <= SoftDisableFrames /\ state \in States
      /\ alerts \in [Keys -> Entry] /\ \A k \in Keys : alerts[k] \in Entry
  BY DEF AlertsInv, AlertsTypeOK, Decrement, Entry
<1>2. /\ state' = NextState(state, timer, types) /\ state' \in States
      /\ soft_disable_timer' \in 0..SoftDisableFrames
  BY <1>1, NextStateType DEF AlertsStep, NextTimer
<1>3. /\ state # "softDisabling" /\ state' = "softDisabling" => soft_disable_timer' = SoftDisableFrames
      /\ state = "softDisabling" /\ state' = "softDisabling" =>
           soft_disable_timer' >= 1 /\ soft_disable_timer' = soft_disable_timer - 1
  <2>1. soft_disable_timer' = NextTimer(state, soft_disable_timer, types)
    BY DEF AlertsStep
  <2>2. state = "softDisabling" /\ state' = "softDisabling" => timer > 0
    BY <1>2 DEF NextState, WithoutDisable, SoftDisablingNext
  <2>3. soft_disable_timer \in Nat
    BY DEF AlertsInv, AlertsTypeOK
  <2> QED BY <1>2, <2>1, <2>2, <2>3 DEF NextTimer, Decrement
<1>4. /\ "WARNING" \in at <=> state' \in ACTIVE_STATES
      /\ "SOFT_DISABLE" \in at <=> state' = "softDisabling"
      /\ "SOFT_DISABLE" \in at => "SOFT_DISABLE" \in types /\ state # "disabled"
      /\ "ENABLE" \in at => state = "disabled" /\ state' # "disabled"
      /\ "USER_DISABLE" \in at => state # "disabled" /\ state' = "disabled"
      /\ "IMMEDIATE_DISABLE" \in at => state # "disabled" /\ state' = "disabled"
      /\ state # "disabled" /\ state' = "disabled" /\ "USER_DISABLE" \notin types =>
           \/ "IMMEDIATE_DISABLE" \in at \cap types
           \/ state = "softDisabling" /\ timer = 0 /\ "SOFT_DISABLE" \in types
  BY <1>1, <1>2, AlertTypesFacts
<1>5. /\ "NO_ENTRY" \in cleared <=> state' \in ENABLED_STATES
      /\ "WARNING" \in cleared <=> state' \notin ACTIVE_STATES
      /\ \A et \in cleared : et \in {"NO_ENTRY", "WARNING"}
  BY <1>4 DEF Cleared
<1>6. /\ \A k \in created : k \in Keys /\ k[2] \in at
      /\ \A et \in at \cap types : et # "PERMANENT" => \E k \in created : k[2] = et
  <2>1. \A k \in created : k \in Keys /\ k[2] \in at
    BY DEF create_alerts
  <2>2. ASSUME NEW et \in at \cap types, et # "PERMANENT" PROVE \E k \in created : k[2] = et
    <3>1. PICK e \in names : et \in EVENTS[e]
      BY DEF contains
    <3>2. <<e, et>> \in Keys
      BY <3>1, KeyOf
    <3>3. <<e, et>> \in created
      BY <2>2, <3>2 DEF create_alerts
    <3> QED BY <3>3
  <2> QED BY <2>1, <2>2
<1>7. alerts' = [k \in Keys |->
                  IF k[2] \in cleared THEN Gone
                  ELSE IF k \in created THEN WithAlert(alerts[k], alert(k))
                  ELSE [Aged(alerts[k]) EXCEPT !.added = FALSE]]
  BY DEF AlertsStep, AlertsAfter
<1>8. /\ state' \in ENABLED_STATES => since' = MaxAge
      /\ state' \notin ENABLED_STATES /\ state \in ENABLED_STATES /\ "USER_DISABLE" \notin types => since' = 0
      /\ state' \notin ENABLED_STATES /\ (state \notin ENABLED_STATES \/ "USER_DISABLE" \in types) =>
           since' = IF since = MaxAge THEN MaxAge ELSE since + 1
  BY DEF AlertsStep
<1>9. event_counters' \in [Events -> 0..PermanentDelay] /\ present' \subseteq Events
  BY DEF AlertsStep, CountersAfter, AlertsInv, AlertsTypeOK
<1>10. current_alert' \in Shown(alerts')
  BY DEF AlertsStep
<1> HIDE DEF types, timer, at, cleared, created
\* Entries that are not raised only age.
<1>11. ASSUME NEW k \in Keys, k \notin created
       PROVE  /\ alerts'[k] \in Entry /\ ~alerts'[k].added
              /\ Active(alerts'[k]) \/ (k[2] \notin cleared /\ alerts[k].left >= 1) =>
                   /\ Active(alerts'[k]) /\ alerts[k].left >= 1
                   /\ alerts'[k].left = alerts[k].left - 1
                   /\ alerts'[k].age = IF alerts[k].age = MaxAge THEN MaxAge ELSE alerts[k].age + 1
                   /\ alerts'[k].priority = alerts[k].priority
  <2>1. CASE k[2] \in cleared
    <3>1. alerts'[k] = Gone
      BY <1>7, <2>1
    <3> QED BY <2>1, <3>1, MaxAgeFacts DEF Gone, Entry, Active, HIGHEST
  <2>2. CASE k[2] \notin cleared
    <3> DEFINE old == Aged(alerts[k])
    <3>1. alerts'[k] = [old EXCEPT !.added = FALSE]
      BY <1>7, <1>11, <2>2
    <3>2. old \in Entry
      BY <1>1, AgedEntry
    <3>3. /\ alerts[k].left >= 1 => /\ old.left = alerts[k].left - 1 /\ old.priority = alerts[k].priority
                                    /\ old.age = IF alerts[k].age = MaxAge THEN MaxAge ELSE alerts[k].age + 1
          /\ Active(old) <=> alerts[k].left >= 1
      BY <1>1, AgedEntry
    <3> HIDE DEF old
    <3>4. /\ alerts'[k] = [age |-> old.age, left |-> old.left, added |-> FALSE, priority |-> old.priority]
          /\ alerts'[k] \in Entry
      BY <3>1, <3>2 DEF Entry
    <3> QED BY <3>3, <3>4 DEF Active
  <2> QED BY <2>1, <2>2
\* Entries that are raised.
<1>12. ASSUME NEW k \in Keys, k \in created, k[2] \notin cleared
       PROVE  /\ alerts'[k] \in Entry /\ alerts'[k].added /\ alerts'[k].left >= 1
              /\ alerts'[k].priority = alert(k).priority
              /\ alerts'[k].age + alerts'[k].left >= alert(k).duration
              /\ alerts'[k].age = 0 \/ (alerts[k].left >= 1 /\ alerts[k].added /\
                   alerts'[k].age = IF alerts[k].age = MaxAge THEN MaxAge ELSE alerts[k].age + 1)
              /\ ~alerts[k].added => alerts'[k].age = 0 /\ alerts'[k].left <= MaxAge
  <2>1. alert(k).duration \in 0..MaxAge /\ alert(k).priority \in 0..HIGHEST
    BY <1>2, KeyTypes, AlertOfType
  <2>2. alerts'[k] = WithAlert(alerts[k], alert(k))
    BY <1>7, <1>12
  <2> HIDE DEF alert
  <2> QED BY <1>1, <2>1, <2>2, RaisedEntry, AgedEntry
<1>13. ASSUME NEW k \in Keys PROVE alerts'[k] \in Entry
  <2>1. CASE k[2] \in cleared
    BY <1>7, <2>1, MaxAgeFacts DEF Gone, Entry, HIGHEST
  <2> QED BY <2>1, <1>11, <1>12
<1>14. alerts' \in [Keys -> Entry]
  BY <1>7, <1>13
<1>15. ASSUME NEW k \in Keys, k[2] \in cleared
       PROVE  ~Active(alerts'[k]) /\ ~alerts'[k].added
  BY <1>7, <1>15 DEF Gone, Active
<1>16. ASSUME NEW k \in Keys, alerts'[k].added
       PROVE  k \in created /\ k[2] \notin cleared /\ k[2] \in at
  BY <1>6, <1>11, <1>15, <1>16
<1> HIDE DEF alert
<1>17. ASSUME NEW k \in Keys
       PROVE  /\ \/ alert(k).priority = Priority[k[2]]
                 \/ k[2] = "SOFT_DISABLE" /\ alert(k).priority = HIGHEST
              /\ k[2] = "SOFT_DISABLE" /\ soft_disable_timer' < TakeoverFrames =>
                   alert(k).priority = HIGHEST /\ alert(k).duration = TakeoverDuration
              /\ k[2] = "SOFT_DISABLE" => alert(k).priority \in {3, HIGHEST}
              /\ k[2] = "IMMEDIATE_DISABLE" =>
                   alert(k).priority = HIGHEST /\ alert(k).duration = TakeoverDuration
  <2>1. k[2] \in ET /\ soft_disable_timer' \in Nat
    BY <1>2, KeyTypes
  <2> QED BY <2>1, AlertOfType DEF alert
<1>18. Entitled'
  <2> SUFFICES ASSUME NEW k \in Keys
               PROVE  /\ Active(alerts'[k]) =>
                           \/ alerts'[k].priority = Priority[k[2]]
                           \/ k[2] = "SOFT_DISABLE" /\ alerts'[k].priority = HIGHEST
                      /\ k[2] = "NO_ENTRY" /\ state' \in ENABLED_STATES => ~Active(alerts'[k])
                      /\ k[2] = "WARNING" /\ state' \notin ACTIVE_STATES => ~Active(alerts'[k])
                      /\ k[2] = "SOFT_DISABLE" /\ alerts'[k].added => state' = "softDisabling"
                      /\ k[2] = "ENABLE" /\ alerts'[k].added => state' # "disabled"
                      /\ k[2] \in {"USER_DISABLE", "IMMEDIATE_DISABLE"} /\ alerts'[k].added =>
                           state' = "disabled"
                      /\ k[2] \in {"ENABLE", "USER_DISABLE"} /\ Active(alerts'[k]) =>
                           alerts'[k].age + alerts'[k].left <= MaxAge
    BY DEF Entitled
  <2>0. Entitled
    BY DEF AlertsInv
  <2>1. Active(alerts'[k]) =>
          \/ alerts'[k].priority = Priority[k[2]]
          \/ k[2] = "SOFT_DISABLE" /\ alerts'[k].priority = HIGHEST
    <3>1. CASE k \in created /\ k[2] \notin cleared
      BY <3>1, <1>12, <1>17
    <3>2. CASE k \notin created
      <4> SUFFICES ASSUME Active(alerts'[k])
                   PROVE  \/ alerts'[k].priority = Priority[k[2]]
                          \/ k[2] = "SOFT_DISABLE" /\ alerts'[k].priority = HIGHEST
        OBVIOUS
      <4>1. alerts[k].left >= 1 /\ alerts'[k].priority = alerts[k].priority
        BY <3>2, <1>11
      <4>2. alerts[k].left \in -1..MaxAge
        BY <1>1 DEF Entry
      <4>3. Active(alerts[k])
        BY <4>1, <4>2 DEF Active
      <4> QED BY <4>1, <4>3, <2>0 DEF Entitled
    <3> QED BY <3>1, <3>2, <1>15
  <2>2. /\ k[2] = "NO_ENTRY" /\ state' \in ENABLED_STATES => ~Active(alerts'[k])
        /\ k[2] = "WARNING" /\ state' \notin ACTIVE_STATES => ~Active(alerts'[k])
    BY <1>5, <1>15
  <2>3. /\ k[2] = "SOFT_DISABLE" /\ alerts'[k].added => state' = "softDisabling"
        /\ k[2] = "ENABLE" /\ alerts'[k].added => state' # "disabled"
        /\ k[2] \in {"USER_DISABLE", "IMMEDIATE_DISABLE"} /\ alerts'[k].added => state' = "disabled"
    BY <1>4, <1>16
  <2>4. k[2] \in {"ENABLE", "USER_DISABLE"} /\ Active(alerts'[k]) =>
          alerts'[k].age + alerts'[k].left <= MaxAge
    <3> SUFFICES ASSUME k[2] \in {"ENABLE", "USER_DISABLE"}, Active(alerts'[k])
                 PROVE  alerts'[k].age + alerts'[k].left <= MaxAge
      OBVIOUS
    <3>1. CASE k \in created
      <4>1. ~alerts[k].added
        BY <2>0, <3>1, <1>4, <1>6 DEF Entitled
      <4>2. alerts'[k].age = 0 /\ alerts'[k].left <= MaxAge
        BY <3>1, <4>1, <1>5, <1>12
      <4> QED BY <4>2, <1>13 DEF Entry
    <3>2. CASE k \notin created
      <4>1. /\ alerts[k].left >= 1 /\ alerts'[k].left = alerts[k].left - 1
            /\ alerts'[k].age = IF alerts[k].age = MaxAge THEN MaxAge ELSE alerts[k].age + 1
        BY <3>2, <1>11
      <4>2. alerts[k].age + alerts[k].left <= MaxAge
        BY <4>1, <2>0, <1>1 DEF Entitled, Active, Entry
      <4>3. alerts[k].age \in 0..MaxAge /\ alerts[k].left \in -1..MaxAge
        BY <1>1 DEF Entry
      <4> QED BY <4>1, <4>2, <4>3, MaxAgeFacts
    <3> QED BY <3>1, <3>2
  <2> QED BY <2>1, <2>2, <2>3, <2>4
<1>19. SoftAlerts'
  <2> SUFFICES ASSUME NEW k \in Keys, k[2] = "SOFT_DISABLE", alerts'[k].added
               PROVE  /\ alerts'[k].left >= 1
                      /\ alerts'[k].age + soft_disable_timer' <= SoftDisableFrames
                      /\ soft_disable_timer' < TakeoverFrames =>
                           /\ alerts'[k].priority = HIGHEST
                           /\ alerts'[k].age + alerts'[k].left >= TakeoverDuration
                      /\ alerts'[k].priority \in {3, HIGHEST}
                      /\ \A j \in Keys :
                           j[2] \in {"ENABLE", "USER_DISABLE"} /\ Active(alerts'[j]) =>
                             alerts'[k].age < alerts'[j].age
    BY DEF SoftAlerts, SoftAdded
  <2>0. Entitled /\ SoftAlerts
    BY DEF AlertsInv
  <2>1. /\ k \in created /\ k[2] \notin cleared
        /\ state' = "softDisabling" /\ state # "disabled"
    BY <1>4, <1>16
  <2>2. /\ alerts'[k].left >= 1 /\ alerts'[k].priority = alert(k).priority
        /\ alerts'[k].age + alerts'[k].left >= alert(k).duration
    BY <2>1, <1>12
  <2>3. CASE alerts'[k].age = 0
    <3>1. ASSUME NEW j \in Keys, j[2] \in {"ENABLE", "USER_DISABLE"}, Active(alerts'[j])
          PROVE  alerts'[k].age < alerts'[j].age
      <4>1. j \notin created
        BY <2>1, <3>1, <1>4, <1>6
      <4>2. alerts'[j].age = IF alerts[j].age = MaxAge THEN MaxAge ELSE alerts[j].age + 1
        BY <3>1, <4>1, <1>11
      <4>3. alerts[j].age \in 0..MaxAge
        BY <1>1 DEF Entry
      <4> QED BY <4>2, <4>3, <2>3, MaxAgeFacts
    <3>2. soft_disable_timer' \in 0..SoftDisableFrames
      BY <1>2
    <3>3. alerts'[k].age + soft_disable_timer' <= SoftDisableFrames
      BY <3>2, <2>3, YoungAlert, Zenon
    <3> QED BY <3>1, <3>3, <2>2, <1>17
  <2>4. CASE alerts'[k].age # 0
    <3>1. /\ alerts[k].added
          /\ alerts'[k].age = IF alerts[k].age = MaxAge THEN MaxAge ELSE alerts[k].age + 1
      BY <2>1, <2>4, <1>12
    <3>2. state = "softDisabling" /\ alerts[k].age + soft_disable_timer <= SoftDisableFrames
      BY <3>1, <2>0 DEF Entitled, SoftAlerts, SoftAdded
    <3>3. soft_disable_timer' = soft_disable_timer - 1 /\ soft_disable_timer \in Nat
      BY <3>2, <2>1, <1>3 DEF AlertsInv, AlertsTypeOK
    <3>4. alerts[k].age \in 0..MaxAge
      BY <1>1 DEF Entry
    <3>5. alerts'[k].age + soft_disable_timer' <= SoftDisableFrames
      BY <3>1, <3>2, <3>3, <3>4, MaxAgeFacts
    <3>6. ASSUME NEW j \in Keys, j[2] \in {"ENABLE", "USER_DISABLE"}, Active(alerts'[j])
          PROVE  alerts'[k].age < alerts'[j].age
      <4>1. j \notin created
        BY <2>1, <3>6, <1>4, <1>6
      <4>2. /\ alerts[j].left >= 1
            /\ alerts'[j].age = IF alerts[j].age = MaxAge THEN MaxAge ELSE alerts[j].age + 1
        BY <3>6, <4>1, <1>11
      <4>3. alerts[j].age \in 0..MaxAge /\ alerts[j].left \in -1..MaxAge
        BY <1>1 DEF Entry
      <4>4. Active(alerts[j])
        BY <4>2, <4>3 DEF Active
      <4>5. alerts[k].age < alerts[j].age /\ alerts[j].age + alerts[j].left <= MaxAge
        BY <3>1, <3>6, <4>4, <2>0 DEF Entitled, SoftAlerts, SoftAdded
      <4> QED BY <4>2, <4>3, <4>5, <3>1, <3>4, MaxAgeFacts
    <3> QED BY <3>5, <3>6, <2>2, <1>17
  <2> QED BY <2>3, <2>4
<1>20. SoftDisabling'
  <2> SUFFICES ASSUME state' = "softDisabling"
               PROVE  soft_disable_timer' >= 1 /\ \E k \in Keys : k[2] = "SOFT_DISABLE" /\ alerts'[k].added
    BY DEF SoftDisabling, SoftAdded
  <2>1. soft_disable_timer' >= 1
    BY <1>3
  <2>2. PICK k \in created : k[2] = "SOFT_DISABLE"
    BY <1>4, <1>6
  <2>3. alerts'[k].added
    BY <2>2, <1>5, <1>6, <1>12
  <2> QED BY <2>1, <2>2, <2>3, <1>6
<1>21. Announced'
  <2> DEFINE lead == TakeoverDuration - SoftDisableFrames
             Witness(k) == /\ k[2] \in {"SOFT_DISABLE", "IMMEDIATE_DISABLE"}
                           /\ alerts'[k].priority = HIGHEST
                           /\ since' + alerts'[k].left >= lead
  <2>0. Entitled /\ SoftAlerts /\ SoftDisabling /\ Announced /\ since \in 0..MaxAge
    BY DEF AlertsInv, AlertsTypeOK
  <2>1. state' # "disabled" => since' = MaxAge
    BY <1>2, <1>8 DEF States
  <2>2. ASSUME since' <= lead PROVE \E k \in Keys : Witness(k)
    <3>1. since' # MaxAge /\ state' \notin ENABLED_STATES /\ state' = "disabled"
      BY <2>2, <1>8, <1>2, MaxAgeFacts DEF States
    <3>2. CASE state \in ENABLED_STATES /\ "USER_DISABLE" \notin types
      <4>1. since' = 0
        BY <3>1, <3>2, <1>8
      <4>2. state # "disabled"
        BY <3>2 DEF ENABLED_STATES, ACTIVE_STATES
      <4>3. CASE "IMMEDIATE_DISABLE" \in at \cap types
        <5>1. PICK k \in created : k[2] = "IMMEDIATE_DISABLE"
          BY <4>3, <1>6
        <5>2. k \in Keys /\ k[2] \notin cleared /\ ~alerts[k].added
          BY <5>1, <4>2, <2>0, <1>5, <1>6 DEF Entitled
        <5>3. alerts'[k].priority = HIGHEST /\ alerts'[k].left >= TakeoverDuration
          <6>1. alerts'[k].left \in -1..MaxAge
            BY <5>2, <1>13 DEF Entry
          <6> QED BY <5>1, <5>2, <6>1, <1>12, <1>17, MaxAgeFacts
        <5>4. alerts'[k].left \in -1..MaxAge
          BY <5>2, <1>13 DEF Entry
        <5> QED BY <4>1, <5>1, <5>2, <5>3, <5>4, MaxAgeFacts
      <4>4. CASE state = "softDisabling" /\ timer = 0
        <5>1. soft_disable_timer = 1
          BY <4>4, <2>0 DEF SoftDisabling, timer, Decrement, AlertsInv, AlertsTypeOK
        <5>2. PICK k \in Keys : k[2] = "SOFT_DISABLE" /\ alerts[k].added
          BY <4>4, <2>0 DEF SoftDisabling, SoftAdded
        <5>3. /\ alerts[k].left >= 1 /\ alerts[k].age + 1 <= SoftDisableFrames
              /\ alerts[k].priority = HIGHEST /\ alerts[k].age + alerts[k].left >= TakeoverDuration
          BY <5>1, <5>2, <2>0 DEF SoftAlerts, SoftAdded
        <5>4. k \notin created /\ k[2] \notin cleared
          BY <5>2, <3>1, <1>4, <1>5, <1>6
        <5>5. alerts'[k].left = alerts[k].left - 1 /\ alerts'[k].priority = HIGHEST
          BY <5>3, <5>4, <1>11
        <5>6. alerts[k].age \in 0..MaxAge /\ alerts[k].left \in -1..MaxAge
          BY <1>1 DEF Entry
        <5> QED BY <4>1, <5>2, <5>3, <5>5, <5>6, MaxAgeFacts
      <4> QED BY <3>1, <3>2, <4>2, <4>3, <4>4, <1>4
    <3>3. CASE ~(state \in ENABLED_STATES /\ "USER_DISABLE" \notin types)
      <4>1. since # MaxAge /\ since' = since + 1 /\ state = "disabled"
        BY <3>1, <3>3, <2>0, <1>8 DEF Announced
      <4>2. PICK k \in Keys : /\ k[2] \in {"SOFT_DISABLE", "IMMEDIATE_DISABLE"}
                              /\ alerts[k].priority = HIGHEST
                              /\ since + alerts[k].left >= lead
        <5>1. since <= lead
          BY <4>1, <2>0, <2>2, MaxAgeFacts
        <5> QED BY <5>1, <2>0 DEF Announced
      <4>3. alerts[k].left \in -1..MaxAge
        BY <1>1 DEF Entry
      <4>4. alerts[k].left >= 1
        BY <4>1, <4>2, <4>3, <2>0, <2>2, MaxAgeFacts
      <4>5. k \notin created /\ k[2] \notin cleared
        BY <3>1, <4>1, <4>2, <1>4, <1>5, <1>6
      <4>6. alerts'[k].left = alerts[k].left - 1 /\ alerts'[k].priority = HIGHEST
        BY <4>2, <4>4, <4>5, <1>11
      <4> QED BY <4>1, <4>2, <4>3, <4>6, <2>0, MaxAgeFacts
    <3> QED BY <3>2, <3>3
  <2> QED BY <2>1, <2>2 DEF Announced
<1>22. AlertsTypeOK'
  <2>1. since' \in 0..MaxAge
    BY <1>8, MaxAgeFacts DEF AlertsInv, AlertsTypeOK
  <2>2. current_alert' \in Keys => Active(alerts'[current_alert'])
    BY <1>10, <1>14, ShownAlert, NoneIsNoKey
  <2> QED BY <1>2, <1>9, <1>14, <2>1, <2>2 DEF AlertsTypeOK, Entry
<1> QED BY <1>10, <1>18, <1>19, <1>20, <1>21, <1>22 DEF AlertsInv

\* The inductive invariant of the alerts holds in every reachable state, for any
\* durations and any set of events.
THEOREM AlertsInvariant == AlertsSpec => []AlertsInv
<1>1. AlertsInit => AlertsInv
  <2> SUFFICES ASSUME AlertsInit PROVE AlertsInv
    OBVIOUS
  <2>1. \A k \in Keys : alerts[k] = Gone
    BY DEF AlertsInit
  <2>2. Gone \in Entry /\ ~Active(Gone) /\ ~Gone.added
    BY MaxAgeFacts DEF Gone, Entry, HIGHEST, Active
  <2>3. alerts \in [Keys -> Entry] /\ current_alert \notin Keys
    BY <2>2, NoneIsNoKey DEF AlertsInit
  <2>4. AlertsTypeOK
    <3>1. state \in States /\ soft_disable_timer \in 0..SoftDisableFrames
      BY SoftDisableAssumption DEF AlertsInit, States
    <3>2. since \in 0..MaxAge /\ event_counters \in [Events -> 0..PermanentDelay] /\ present \subseteq Events
      BY MaxAgeFacts, AlertsAssumption DEF AlertsInit
    <3> QED BY <2>3, <3>1, <3>2 DEF AlertsTypeOK, Entry
  <2>5. Entitled /\ SoftAlerts /\ SoftDisabling
    BY <2>1, <2>2 DEF Entitled, SoftAlerts, SoftAdded, SoftDisabling, AlertsInit
  <2>6. Announced
    <3>1. ~(since <= TakeoverDuration - SoftDisableFrames)
      BY MaxAgeFacts, SoftDisableAssumption, AlertsAssumption DEF AlertsInit
    <3> QED BY <3>1 DEF Announced, AlertsInit
  <2>7. current_alert \in Shown(alerts)
    BY <2>1, <2>2 DEF Shown, AlertsInit
  <2> QED BY <2>4, <2>5, <2>6, <2>7 DEF AlertsInv
<1>2. AlertsInv /\ [AlertsNext]_alertsVars => AlertsInv'
  <2> SUFFICES ASSUME AlertsInv, [AlertsNext]_alertsVars PROVE AlertsInv'
    OBVIOUS
  <2>1. CASE AlertsNext
    BY <2>1, AlertsStepKeeps DEF AlertsNext
  <2>2. CASE UNCHANGED alertsVars
    BY <2>2 DEF alertsVars, AlertsInv, AlertsTypeOK, Entitled, SoftAlerts, SoftAdded, SoftDisabling,
                Announced
  <2> QED BY <2>1, <2>2
<1> QED BY <1>1, <1>2, PTL DEF AlertsSpec

\* The alert shown is active whenever there is an active one.
LEMMA CurrentAlert ==
  ASSUME AlertsInv
  PROVE  /\ current_alert # None =>
              /\ current_alert \in Keys /\ Active(alerts[current_alert])
              /\ \A j \in Keys : Active(alerts[j]) => ~Outranks(alerts[j], alerts[current_alert])
         /\ (\E k \in Keys : Active(alerts[k])) => current_alert # None
         /\ \A k \in Keys : alerts[k] \in Entry
<1>1. alerts \in [Keys -> Entry] /\ current_alert \in Shown(alerts)
  BY DEF AlertsInv, AlertsTypeOK, Entry
<1> QED BY <1>1, ShownAlert

\* Type correctness of the alerts; what is shown is active.
THEOREM AlertsTypeCorrect == AlertsSpec => []AlertsTypeOK
<1>1. AlertsInv => AlertsTypeOK BY DEF AlertsInv
<1> QED BY <1>1, AlertsInvariant, PTL

\* A disengagement that the driver did not ask for is announced at the highest priority.
THEOREM AnnouncedTheorem == AlertsSpec => []DisengagementIsAnnounced
<1>1. AlertsInv => DisengagementIsAnnounced
  <2> SUFFICES ASSUME AlertsInv, since <= TakeoverDuration - SoftDisableFrames
               PROVE  current_alert # None /\ alerts[current_alert].priority = HIGHEST
    BY DEF DisengagementIsAnnounced
  <2>1. PICK k \in Keys : /\ alerts[k].priority = HIGHEST
                          /\ since + alerts[k].left >= TakeoverDuration - SoftDisableFrames
    BY DEF AlertsInv, Announced
  <2>2. Active(alerts[k])
    <3>1. alerts[k].left \in -1..MaxAge /\ since \in 0..MaxAge
      BY CurrentAlert DEF Entry, AlertsInv, AlertsTypeOK
    <3> QED BY <2>1, <3>1, MaxAgeFacts, AlertsAssumption, SoftDisableAssumption DEF Active
  <2>3. /\ current_alert # None /\ current_alert \in Keys
        /\ ~Outranks(alerts[k], alerts[current_alert])
    BY <2>2, CurrentAlert
  <2>4. alerts[current_alert].priority \in 0..HIGHEST
    BY <2>3, CurrentAlert DEF Entry
  <2> QED BY <2>1, <2>3, <2>4 DEF Outranks, HIGHEST
<1> QED BY <1>1, AlertsInvariant, PTL

\* A soft disable is always shown as one, or hidden only by an alert of highest priority.
THEOREM SoftDisableShownTheorem == AlertsSpec => []SoftDisableIsShown
<1>1. AlertsInv => SoftDisableIsShown
  <2> SUFFICES ASSUME AlertsInv, state = "softDisabling"
               PROVE  /\ current_alert # None
                      /\ current_alert[2] = "SOFT_DISABLE" \/ alerts[current_alert].priority = HIGHEST
    BY DEF SoftDisableIsShown
  <2>1. PICK k \in Keys : k[2] = "SOFT_DISABLE" /\ alerts[k].added
    BY DEF AlertsInv, SoftDisabling, SoftAdded
  <2>2. /\ alerts[k].left >= 1 /\ alerts[k].priority \in {3, HIGHEST}
        /\ \A j \in Keys : j[2] \in {"ENABLE", "USER_DISABLE"} /\ Active(alerts[j]) =>
                             alerts[k].age < alerts[j].age
    BY <2>1 DEF AlertsInv, SoftAlerts, SoftAdded
  <2>3. Active(alerts[k])
    <3>1. alerts[k].left \in -1..MaxAge
      BY CurrentAlert DEF Entry
    <3> QED BY <2>2, <3>1, MaxAgeFacts DEF Active
  <2> DEFINE c == current_alert
  <2>4. /\ c # None /\ c \in Keys /\ Active(alerts[c]) /\ ~Outranks(alerts[k], alerts[c])
        /\ alerts[c] \in Entry /\ alerts[k] \in Entry /\ c[2] \in ET
    BY <2>3, CurrentAlert, KeyTypes
  <2>5. SUFFICES ASSUME c[2] # "SOFT_DISABLE", alerts[c].priority # HIGHEST PROVE FALSE
    BY <2>4
  <2>6. alerts[c].priority \in 3..HIGHEST
    BY <2>2, <2>4 DEF Outranks, Entry, HIGHEST
  <2>7. alerts[c].priority = Priority[c[2]]
    BY <2>4, <2>5 DEF AlertsInv, Entitled
  <2>8. c[2] \in {"ENABLE", "USER_DISABLE"} /\ alerts[c].priority = 3
    BY <2>4, <2>5, <2>6, <2>7 DEF Priority, ET, HIGHEST
  <2>9. alerts[k].age < alerts[c].age /\ alerts[k].priority >= 3
    BY <2>2, <2>4, <2>8 DEF HIGHEST
  <2> QED BY <2>2, <2>4, <2>8, <2>9 DEF Outranks, HIGHEST
<1> QED BY <1>1, AlertsInvariant, PTL

\* No refusal is shown while enabled, no warning while not active.
THEOREM NoStaleAlertTheorem == AlertsSpec => []NoStaleAlert
<1>1. AlertsInv => NoStaleAlert
  <2>1. None[2] # "NO_ENTRY" /\ None[2] # "WARNING"
    BY DEF None
  <2> QED BY <2>1, CurrentAlert DEF NoStaleAlert, AlertsInv, Entitled
<1> QED BY <1>1, AlertsInvariant, PTL

=============================================================================

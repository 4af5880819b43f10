------------------------------- MODULE Alerts -------------------------------
(***************************************************************************)
(* What the driver is told: Events.create_alerts, AlertManager and         *)
(* SelfdriveD.update_alerts, on top of the engagement state machine.  Each *)
(* step runs one initialized frame of selfdrived with any events.  Frames  *)
(* are kept relative to the present one, so that the model stays finite.   *)
(***************************************************************************)
EXTENDS StateMachine, FiniteSetsExt

CONSTANTS
  Events,           \* the names that occur; pcmEnable and pcmDisable exclude each other
  Duration,         \* Alert.duration in frames, by event type
  TakeoverDuration, \* that of ImmediateDisableAlert: 400 in the code
  TakeoverFrames,   \* int(0.5 / DT_CTRL): 50 in the code
  PermanentDelay    \* creation_delay of canError's PERMANENT alert: 100 frames in the code

\* The alerts of canError and controlsMismatch, the events here that disable at once, are
\* ImmediateDisableAlerts.
ASSUME AlertsAssumption ==
  /\ Events \subseteq EventNames \ {"overheat", "cruiseMismatch", "preEnableStandstill"}
  /\ Duration \in [ET -> Nat] /\ Duration["IMMEDIATE_DISABLE"] = TakeoverDuration
  /\ TakeoverFrames \in Nat /\ TakeoverFrames > 1
  /\ TakeoverDuration \in Nat \ {0} /\ PermanentDelay \in Nat

VARIABLES
  present, event_counters,     \* Events: the names of the last step, their counters
  alerts,                      \* AlertManager.alerts: key -> entry
  current_alert,               \* key of the alert shown, or None
  since                        \* history: frames since openpilot disengaged by itself,
                               \* MaxAge once it is engaged again

alertsVars == <<state, soft_disable_timer, present, event_counters, alerts, current_alert, since>>

\* An alert_type names an event and one of its event types.
Keys == UNION {{<<e, et>> : et \in EVENTS[e]} : e \in Events}
None == <<"none", "none">>
MaxAge == Max({Duration[et] : et \in ET} \cup {TakeoverDuration})

\* AlertEntry: frames since start_frame (saturating), frames until end_frame, added
\* in the last frame; an inactive entry is Gone, whatever its frames.
Gone == [age |-> 0, left |-> -1, added |-> FALSE, priority |-> 0]
Active(entry) == entry.left >= 0

HIGHEST == 5
Priority ==
  [IMMEDIATE_DISABLE |-> HIGHEST, SOFT_DISABLE |-> 3, ENABLE |-> 3, USER_DISABLE |-> 3,
   NO_ENTRY |-> 2, WARNING |-> 2, PERMANENT |-> 2,
   PRE_ENABLE |-> 0, OVERRIDE_LATERAL |-> 0, OVERRIDE_LONGITUDINAL |-> 0]

AlertsInit ==
  /\ state = "disabled" /\ soft_disable_timer = 0
  /\ present = {} /\ event_counters = [e \in Events |-> 0]
  /\ alerts = [k \in Keys |-> Gone] /\ current_alert = None
  /\ since = MaxAge

-----------------------------------------------------------------------------
\* Mutant: the takeover variant of a soft disable alert is never chosen.
MutAlert(et, timer) == [priority |-> Priority[et], duration |-> Duration[et]]

\* The alert of an event type; soft_disable_alert and user_soft_disable_alert turn
\* into an ImmediateDisableAlert shortly before the soft disable timer ends.
AlertOf(et, timer) ==
  IF et = "SOFT_DISABLE" /\ timer < TakeoverFrames
    THEN [priority |-> HIGHEST, duration |-> TakeoverDuration]
    ELSE [priority |-> Priority[et], duration |-> Duration[et]]

\* Events.clear: consecutive frames an event was present before this one.
CountersAfter ==
  [e \in Events |-> IF e \notin present THEN 0
                    ELSE IF event_counters[e] = PermanentDelay THEN PermanentDelay
                    ELSE event_counters[e] + 1]

\* create_alerts: the keys of the alerts that the given event types call for.
create_alerts(names, types, counters) ==
  {k \in Keys : /\ k[1] \in names /\ k[2] \in types
                /\ k[2] = "PERMANENT" => counters[k[1]] + 1 >= PermanentDelay}

\* One frame passes for an entry.
Aged(entry) ==
  IF entry.left < 1 THEN Gone
  ELSE [entry EXCEPT !.age = IF @ = MaxAge THEN @ ELSE @ + 1, !.left = @ - 1]

\* add_many for one alert: an entry added in the frame before keeps its start_frame.
WithAlert(entry, alert) ==
  LET just_added == Active(Aged(entry)) /\ entry.added
      start == IF just_added THEN Aged(entry).age ELSE 0
  IN  [age |-> start, left |-> Max({1, alert.duration - start}), added |-> TRUE,
       priority |-> alert.priority]

\* Mutant: refusals stay when openpilot engages.
MutCleared(enabled, types) == {"WARNING"} \ types

\* update_alerts: the event types whose alerts end at once.
Cleared(enabled, types) ==
  ({"WARNING"} \ types) \cup (IF enabled THEN {"NO_ENTRY"} ELSE {})

\* add_many and the clearing part of process_alerts.
AlertsAfter(created, timer, cleared) ==
  [k \in Keys |->
     IF k[2] \in cleared THEN Gone
     ELSE IF k \in created THEN WithAlert(alerts[k], AlertOf(k[2], timer))
     ELSE [Aged(alerts[k]) EXCEPT !.added = FALSE]]

\* Mutant: among alerts of one priority the older one is shown.
MutOutranks(a, b) == a.priority > b.priority \/ (a.priority = b.priority /\ a.age > b.age)

\* process_alerts compares priorities, then start frames.
Outranks(a, b) == a.priority > b.priority \/ (a.priority = b.priority /\ a.age < b.age)

\* Mutant: entries that have ended take part.
MutShown(entries) == {k \in Keys : \A j \in Keys : ~Outranks(entries[j], entries[k])}

\* process_alerts: among equals the first of the dictionary, here any, is shown.
Shown(entries) ==
  LET active == {k \in Keys : Active(entries[k])}
      best == {k \in active : \A j \in active : ~Outranks(entries[j], entries[k])}
  IN  IF best = {} THEN {None} ELSE best

\* step once initialized, with the events of this frame: the state machine, then
\* update_alerts.  The sets of one element bind a value that TLC then computes once.
AlertsStep(names) ==
  LET types == contains(names)
      enabled == state' \in ENABLED_STATES
  IN  \E alert_types \in {AlertTypes(state, Decrement(soft_disable_timer), types)} :
      \E created \in {create_alerts(names, alert_types, CountersAfter)} :
        /\ state' = NextState(state, Decrement(soft_disable_timer), types)
        /\ soft_disable_timer' = NextTimer(state, soft_disable_timer, types)
        /\ present' = names /\ event_counters' = CountersAfter
        /\ alerts' = AlertsAfter(created, soft_disable_timer', Cleared(enabled, alert_types))
        /\ current_alert' \in Shown(alerts')
        /\ since' = IF enabled THEN MaxAge
                    ELSE IF state \in ENABLED_STATES /\ "USER_DISABLE" \notin types THEN 0
                    ELSE IF since = MaxAge THEN MaxAge ELSE since + 1

AlertsNext == \E names \in SUBSET Events : {"pcmEnable", "pcmDisable"} # names \cap {"pcmEnable", "pcmDisable"}
                                       /\ AlertsStep(names)

AlertsSpec == AlertsInit /\ [][AlertsNext]_alertsVars

-----------------------------------------------------------------------------
\* Types, and the alert shown is an active one.
AlertsTypeOK ==
  /\ state \in States /\ soft_disable_timer \in 0..SoftDisableFrames
  /\ present \subseteq Events /\ event_counters \in [Events -> 0..PermanentDelay]
  /\ alerts \in [Keys -> [age : 0..MaxAge, left : -1..MaxAge, added : BOOLEAN, priority : 0..HIGHEST]]
  /\ current_alert \in Keys => Active(alerts[current_alert])
  /\ since \in 0..MaxAge

\* Whenever openpilot disengages other than at the driver's wish, because of an
\* immediate disable or when a soft disable has run its time, the driver is shown
\* "TAKE CONTROL IMMEDIATELY" at the highest priority from that very frame on, until
\* openpilot is engaged again or for as long as the takeover alert, which counts from the
\* first frame of the soft disable, outlasts the timer; no other event takes it away.
DisengagementIsAnnounced ==
  since <= TakeoverDuration - SoftDisableFrames =>
    current_alert # None /\ alerts[current_alert].priority = HIGHEST

\* While openpilot is soft disabling, the driver is shown a soft disable alert, or
\* one of highest priority: nothing that sounds or lingers hides it.
SoftDisableIsShown ==
  state = "softDisabling" =>
    /\ current_alert # None
    /\ current_alert[2] = "SOFT_DISABLE" \/ alerts[current_alert].priority = HIGHEST

\* An alert outlives its cause only where it is still true: no refusal to engage is
\* shown while openpilot is enabled, no warning about its driving once it is not.
NoStaleAlert ==
  /\ current_alert[2] = "NO_ENTRY" => state \notin ENABLED_STATES
  /\ current_alert[2] = "WARNING" => state \in ACTIVE_STATES
=============================================================================

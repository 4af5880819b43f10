--------------------------- MODULE ControlLoopProofs ---------------------------
(***************************************************************************)
(* How long a command may pass the panda, and how long selfdrived may be   *)
(* engaged against the panda, for all limits and however often the         *)
(* processes stop.                                                         *)
(*                                                                         *)
(* The first argument follows the heartbeat: while the                     *)
(* panda allows controls, a selfdriveState that pandad has not read is no  *)
(* older than the last heartbeat (Unread); one that it has read and takes  *)
(* for alive is at most HeartbeatLimit - 1 + Alive - 1 old (Read); the     *)
(* heartbeat that it sends then serves for HeartbeatLimit - 1 more ticks   *)
(* (Engaged), and one that says disengaged for DisengagedLimit - 1         *)
(* (Disengaged).                                                           *)
(***************************************************************************)
EXTENDS ControlLoop, TLAPS

\* The part of the types that the argument needs.
Types ==
  /\ unwanted \in Nat /\ heartbeatAge \in Nat /\ ssAge \in Nat /\ disengagedFor \in Nat
  /\ controls_allowed \in BOOLEAN /\ heartbeatEngaged \in BOOLEAN /\ selfdriveState \in BOOLEAN
  /\ enabled \in BOOLEAN /\ engaged \in BOOLEAN

Allowing == controls_allowed => /\ heartbeatAge < HeartbeatLimit \/ unwanted = 0
                                /\ disengagedFor < DisengagedLimit

Unread == controls_allowed /\ "pandad" \in unread /\ selfdriveState => unwanted <= heartbeatAge

Read == controls_allowed /\ "pandad" \notin unread /\ selfdriveState /\ ssAge < Alive
          => unwanted <= HeartbeatLimit - 1 + ssAge

Engaged == controls_allowed /\ heartbeatEngaged
             => unwanted <= HeartbeatLimit - 1 + Alive - 1 + heartbeatAge

Disengaged == controls_allowed /\ ~heartbeatEngaged
                => unwanted <= 2 * (HeartbeatLimit - 1) + Alive - 1 + disengagedFor

IInv == Types /\ Allowing /\ Unread /\ Read /\ Engaged /\ Disengaged /\ ActuationIsWanted

\* The limits are numbers; capping and counting stay in the numbers.
LEMMA Limits ==
  /\ Alive \in Nat \ {0} /\ HeartbeatLimit \in Nat \ {0} /\ DisengagedLimit \in Nat \ {0}
  /\ Bound \in Nat
BY ControlLoopAssumption DEF ControlLoopAssumption, Bound

LEMMA InitIInv == Init => IInv
<1> SUFFICES ASSUME Init PROVE IInv OBVIOUS
<1>1. unwanted \in Nat /\ heartbeatAge \in Nat /\ ssAge \in Nat /\ disengagedFor \in Nat
  BY Limits DEF Init
<1>2. Types BY <1>1 DEF Init, Types
<1> QED
  BY <1>2 DEF Init, IInv, Allowing, Unread, Read, Engaged, Disengaged, ActuationIsWanted

LEMMA NextIInv == IInv /\ [Next]_vars => IInv'
<1> SUFFICES ASSUME IInv, [Next]_vars PROVE IInv' OBVIOUS
<1> USE Limits DEF IInv, Types, Allowing, Unread, Read, Engaged, Disengaged, ActuationIsWanted
<1>1. CASE Set
  BY <1>1 DEF Set, sd, pandadVars
<1>2. CASE Cancel
  BY <1>2 DEF Cancel, sd, pandadVars, history
<1>3. CASE Selfdrived
  <2>1. enabled' \in BOOLEAN /\ selfdriveState' = enabled'
    BY <1>3, Zenon DEF Selfdrived
  <2>2. unwanted' = (IF enabled' THEN 0 ELSE unwanted) /\ unread' = {"controlsd", "pandad"}
    BY <1>3 DEF Selfdrived
  <2>3. UNCHANGED <<pandadVars, panda, actuating>> BY <1>3 DEF Selfdrived
  <2>4. Types'
    BY <2>1, <2>2, <2>3 DEF pandadVars, panda
  <2>5. Allowing' /\ Engaged' /\ Disengaged' /\ ActuationIsWanted'
    BY <2>2, <2>3, <2>4 DEF pandadVars, panda, Bound
  <2>6. Unread' /\ Read'
    BY <2>1, <2>2, <2>3, <2>4 DEF pandadVars, panda
  <2> QED BY <2>4, <2>5, <2>6
<1>4. CASE Controlsd
  BY <1>4 DEF Controlsd, sd, pandadVars, panda, history
<1>5. CASE Card
  BY <1>5 DEF Card, sd, pandadVars, panda, history
<1>6. CASE CanSend
  BY <1>6 DEF CanSend, sd, pandadVars, panda, Bound
<1>7. CASE PandadRound
  <2>1. heartbeatAge' = 0 /\ heartbeatEngaged' = engaged' /\ "pandad" \notin unread'
    BY <1>7 DEF PandadRound
  <2>2. ssAge' = (IF "pandad" \in unread THEN 0 ELSE ssAge)
    BY <1>7 DEF PandadRound
  <2>3. engaged' = (ssAge' < Alive /\ selfdriveState)
    BY <1>7 DEF PandadRound
  <2>4. UNCHANGED <<sd, controls_allowed, disengagedFor, history>>
    BY <1>7 DEF PandadRound
  <2>5. engaged' \in BOOLEAN BY <2>3, Zenon
  <2>6. Types' BY <2>1, <2>2, <2>4, <2>5 DEF sd, history
  <2>7. Allowing' /\ Unread' /\ ActuationIsWanted' BY <2>1, <2>4 DEF sd, history
  <2>8. Read' BY <2>2, <2>4, <2>6 DEF sd, history
  <2>9. Engaged'
    <3>1. heartbeatEngaged' => ssAge' < Alive /\ selfdriveState BY <2>1, <2>3, Zenon
    <3>2. UNCHANGED <<controls_allowed, unwanted>> BY <2>4 DEF history
    <3>3. CASE "pandad" \in unread BY <2>1, <3>1, <3>2, <3>3
    <3>4. CASE "pandad" \notin unread BY <2>1, <2>2, <3>1, <3>2, <3>4
    <3> QED BY <3>3, <3>4
  <2>10. Disengaged' BY <2>1, <2>4, <2>6 DEF sd, history
  <2> QED BY <2>6, <2>7, <2>8, <2>9, <2>10
<1>8. CASE PandadFrame
  BY <1>8 DEF PandadFrame, sd, panda, history
<1>9. CASE Tick
  <2> USE <1>9 DEF Tick, PandaTick, Older, Upto
  <2>1. Types'
    <3>1. controls_allowed' \in BOOLEAN BY Zenon
    <3>2. enabled' \in BOOLEAN /\ engaged' \in BOOLEAN /\ selfdriveState' \in BOOLEAN
      BY DEF sd
    <3> QED BY <3>1, <3>2
  <2>2. controls_allowed' => controls_allowed /\ heartbeatAge' = heartbeatAge + 1
                             /\ heartbeatAge' < HeartbeatLimit /\ disengagedFor' < DisengagedLimit
    <3>1. controls_allowed' => /\ controls_allowed
                               /\ heartbeatAge' < HeartbeatLimit /\ disengagedFor' < DisengagedLimit
      BY <1>9, Zenon DEF Tick, PandaTick
    <3>2. heartbeatAge' < HeartbeatLimit => heartbeatAge' = heartbeatAge + 1
      OBVIOUS
    <3> QED BY <3>1, <3>2
  <2>3. unwanted' \in {unwanted + 1, Bound + 1} /\ unwanted' <= unwanted + 1 OBVIOUS
  <2>4. Allowing' /\ ActuationIsWanted' BY <2>2
  <2>5. Unread' /\ Read' /\ Engaged' BY <2>1, <2>2, <2>3 DEF sd
  <2>6. Disengaged' BY <2>1, <2>2, <2>3
  <2> QED BY <2>1, <2>4, <2>5, <2>6
<1>10. CASE \E p \in Processes : Stop(p) \/ Resume(p)
  BY <1>10 DEF Stop, Resume, sd, pandadVars, panda, history
<1>11. CASE UNCHANGED vars
  BY <1>11 DEF vars, sd, pandadVars, panda, history
<1> QED
  BY <1>1, <1>2, <1>3, <1>4, <1>5, <1>6, <1>7, <1>8, <1>9, <1>10, <1>11 DEF Next, Step

\* The strengthened invariant, for all limits and any number of stops.
THEOREM InductiveInvariant == Spec => []IInv
BY InitIInv, NextIInv, PTL DEF Spec

\* No command passes the panda later than Bound after selfdrived last said
\* enabled or the driver last set, whoever of controlsd, card and pandad
\* hangs or dies in between.
THEOREM ActuationTheorem == Spec => []ActuationIsWanted
<1>1. IInv => ActuationIsWanted BY DEF IInv
<1> QED BY <1>1, InductiveInvariant, PTL
(***************************************************************************)
(* The second argument follows pandaStates: of the ticks that selfdrived   *)
(* is engaged against the panda (Against), fewer than Period pass until    *)
(* pandad reports it (Unseen), and the others are counted (Seen), up to    *)
(* MismatchLimit (Counting).  Only a driver who sets and cancels within a  *)
(* tick can make pandad report otherwise, and then selfdrived has the      *)
(* cancel before it (Cancelled).                                           *)
(***************************************************************************)
One == 1 % Period
Ran(p) == IF p \in toRun THEN 0 ELSE 1

Numbers ==
  /\ disagree \in Nat /\ mismatch_counter \in Nat /\ frame \in 0..(Period - 1)
  /\ pandaStates \in BOOLEAN /\ controls_allowed \in BOOLEAN /\ enabled \in BOOLEAN

Counting == enabled => mismatch_counter < MismatchLimit

Going == disagree > 0 /\ "selfdrived" \in toRun => enabled

\* pandad only reports in the first tick what no longer holds at its end if the driver cancelled.
Reported ==
  "pandad" \notin toRun /\ ~controls_allowed /\ pandaStates /\ frame = One
    => button = "cancel" \/ ("selfdrived" \notin toRun /\ ~enabled)

Against == disagree > 0 /\ enabled /\ ~controls_allowed /\ button # "cancel"

Unseen == Against /\ pandaStates =>
            /\ frame # One
            /\ frame = 0 => disagree + Ran("pandad") < Period
            /\ frame # 0 => disagree + Ran("pandad") < frame

Seen == Against /\ ~pandaStates => disagree + Ran("selfdrived") <= mismatch_counter + Period

Cancelled ==
  disagree > 0 /\ enabled /\ (controls_allowed \/ (button = "cancel" /\ "selfdrived" \notin toRun))
    => disagree < Agreement

DInv == /\ Numbers /\ Counting /\ Going /\ Reported /\ Unseen /\ Seen /\ Cancelled
        /\ EngagedIsAllowed

\* The constants are numbers.
LEMMA Frames ==
  /\ Period \in Nat \ {0} /\ MismatchLimit \in Nat \ {0} /\ Agreement = MismatchLimit + Period
  /\ One = (IF Period = 1 THEN 0 ELSE 1)
<1>1. Period \in Nat \ {0} /\ MismatchLimit \in Nat \ {0} /\ Agreement = MismatchLimit + Period
  BY ControlLoopAssumption DEF ControlLoopAssumption, Agreement
<1>2. One = (IF Period = 1 THEN 0 ELSE 1)
  BY <1>1 DEF One
<1> QED BY <1>1, <1>2

\* The frame counter counts modulo Period.
LEMMA NextFrame ==
  \A f \in 0..(Period - 1) : (f + 1) % Period = (IF f = Period - 1 THEN 0 ELSE f + 1)
BY Frames

LEMMA InitDInv == Init => DInv
<1> SUFFICES ASSUME Init PROVE DInv OBVIOUS
<1>1. Numbers
  <2>1. 0 \in 0..(Period - 1) BY Frames
  <2> QED BY <2>1, Zenon DEF Init, Numbers
<1>2. disagree = 0 /\ enabled = FALSE /\ pandaStates = FALSE BY DEF Init
<1> QED
  BY <1>1, <1>2, Frames DEF DInv, Counting, Going, Reported, Against, Unseen, Seen, Cancelled,
                            EngagedIsAllowed

\* A step outside selfdrived, pandad's rounds and the panda's ticks.
LEMMA ElsewhereKeepsDInv ==
  ASSUME DInv, UNCHANGED <<disagree, mismatch_counter, frame, pandaStates, controls_allowed,
                           enabled, button>>,
         "pandad" \in toRun' <=> "pandad" \in toRun,
         "selfdrived" \in toRun' <=> "selfdrived" \in toRun
  PROVE  DInv'
BY DEF DInv, Numbers, Counting, Going, Reported, Against, Unseen, Seen, Cancelled, EngagedIsAllowed,
       Ran, One, Agreement

LEMMA NextDInv == DInv /\ [Next]_vars => DInv'
<1> SUFFICES ASSUME DInv, [Next]_vars PROVE DInv' OBVIOUS
<1> USE Frames DEF DInv, Numbers, Counting, Going, Reported, Against, Unseen, Seen, Cancelled,
                   EngagedIsAllowed, Ran
<1>1. CASE Set
  BY <1>1 DEF Set, schedule, sd, pandadVars
<1>2. CASE Cancel
  BY <1>2 DEF Cancel, schedule, sd, pandadVars, history
<1>3. CASE Selfdrived
  <2>1. /\ "selfdrived" \in toRun /\ "selfdrived" \notin toRun'
        /\ "pandad" \in toRun' <=> "pandad" \in toRun
    BY <1>3 DEF Selfdrived, Runs
  <2>2. UNCHANGED <<disagree, frame, pandaStates, controls_allowed>> /\ button' = "none"
    BY <1>3 DEF Selfdrived, pandadVars, panda
  <2>3. enabled' \in BOOLEAN /\ (enabled' => button # "cancel" /\ mismatch_counter' # MismatchLimit)
    BY <1>3, Zenon DEF Selfdrived
  <2>4. mismatch_counter' \in Nat /\ (enabled' => mismatch_counter' < MismatchLimit)
    BY <1>3, <2>3 DEF Selfdrived, CountMismatch, Upto
  <2>5. enabled /\ ~pandaStates => \/ mismatch_counter' = mismatch_counter + 1
                                   \/ mismatch_counter' = MismatchLimit
    BY <1>3 DEF Selfdrived, CountMismatch, Upto
  <2>6. Numbers' /\ Counting' /\ Going' /\ EngagedIsAllowed'
    BY <2>1, <2>2, <2>3, <2>4
  <2>7. Reported' BY <2>1, <2>2, <2>3
  <2>8. Unseen' BY <2>1, <2>2, <2>3
  <2>9. Seen'
    <3> SUFFICES ASSUME Against', ~pandaStates'
                 PROVE  disagree + 1 <= mismatch_counter' + Period
      BY <2>1, <2>2
    <3>1. enabled' /\ enabled /\ Against /\ ~pandaStates
      BY <2>1, <2>2, <2>3 DEF Against
    <3>2. disagree <= mismatch_counter + Period BY <2>1, <3>1
    <3>3. mismatch_counter' = mismatch_counter + 1 BY <2>3, <2>4, <2>5, <3>1
    <3> QED BY <3>2, <3>3
  <2>10. Cancelled' BY <2>1, <2>2
  <2> QED BY <2>6, <2>7, <2>8, <2>9, <2>10
<1>4. CASE Controlsd
  BY <1>4, ElsewhereKeepsDInv DEF Controlsd, Runs, sd, pandadVars, panda, history
<1>5. CASE Card
  BY <1>5, ElsewhereKeepsDInv DEF Card, Runs, sd, pandadVars, panda, history
<1>6. CASE CanSend
  BY <1>6, ElsewhereKeepsDInv DEF CanSend, Runs, sd, pandadVars, panda
<1>7. CASE PandadRound
  <2>1. /\ "pandad" \in toRun /\ "pandad" \notin toRun'
        /\ "selfdrived" \in toRun' <=> "selfdrived" \in toRun
    BY <1>7 DEF PandadRound, Runs
  <2>2. frame = 0 /\ frame' = One /\ pandaStates' = controls_allowed
    BY <1>7 DEF PandadRound, One
  <2>3. UNCHANGED <<disagree, mismatch_counter, controls_allowed, enabled, button>>
    BY <1>7 DEF PandadRound, sd, history
  <2>4. Numbers' /\ Counting' /\ Going' /\ EngagedIsAllowed' BY <2>1, <2>2, <2>3
  <2>5. Reported' /\ Unseen' BY <2>2, <2>3
  <2>6. Seen' BY <2>1, <2>2, <2>3
  <2>7. Cancelled' BY <2>1, <2>3
  <2> QED BY <2>4, <2>5, <2>6, <2>7
<1>8. CASE PandadFrame
  <2>1. /\ "pandad" \in toRun /\ "pandad" \notin toRun'
        /\ "selfdrived" \in toRun' <=> "selfdrived" \in toRun
    BY <1>8 DEF PandadFrame, Runs
  <2>2. frame # 0 /\ frame' = (IF frame = Period - 1 THEN 0 ELSE frame + 1)
    BY <1>8, NextFrame DEF PandadFrame
  <2>3. UNCHANGED <<disagree, mismatch_counter, pandaStates, controls_allowed, enabled, button>>
    BY <1>8 DEF PandadFrame, sd, panda, history
  <2>4. Numbers' /\ Counting' /\ Going' /\ EngagedIsAllowed' BY <2>1, <2>2, <2>3
  <2>5. frame' # One' BY <2>2 DEF One
  <2>6. Reported' /\ Unseen' BY <2>1, <2>2, <2>3, <2>5
  <2>7. Seen' /\ Cancelled' BY <2>1, <2>3
  <2> QED BY <2>4, <2>6, <2>7
<1>9. CASE Tick
  <2>1. /\ "selfdrived" \in toRun' /\ "pandad" \in toRun'
        /\ UNCHANGED <<mismatch_counter, frame, pandaStates, enabled, button>>
    BY <1>9 DEF Tick, sd, Processes
  <2>2. controls_allowed' \in BOOLEAN /\ (controls_allowed' => controls_allowed)
    BY <1>9, Zenon DEF Tick, PandaTick
  <2>3. disagree' \in Nat /\ disagree' <= disagree + 1
    BY <1>9 DEF Tick, Older, Upto
  <2>4. disagree' > 0 => /\ enabled /\ ~controls_allowed
                         /\ "selfdrived" \notin toRun /\ "pandad" \notin toRun
    BY <1>9 DEF Tick
  <2>5. EngagedIsAllowed' BY <2>3, <2>4
  <2>6. Numbers' /\ Counting' /\ Going' /\ Reported' BY <2>1, <2>2, <2>3, <2>4
  <2>7. ASSUME Against' PROVE /\ disagree \in Nat /\ frame \in 0..(Period - 1) /\ mismatch_counter \in Nat
                              /\ disagree > 0 => Against
                              /\ pandaStates => frame # One
    BY <2>1, <2>4, <2>7 DEF Against
  <2>8. Unseen'
    <3>1. ASSUME Against', pandaStates, frame = 0 PROVE disagree' < Period
      <4>1. disagree > 0 => disagree + 1 < Period BY <2>4, <2>7, <3>1
      <4>2. Period > 1 BY <2>7, <3>1
      <4> HIDE DEF DInv, Numbers, EngagedIsAllowed
      <4> QED BY <2>3, <2>7, <3>1, <4>1, <4>2
    <3>2. ASSUME Against', pandaStates, frame # 0 PROVE disagree' < frame
      <4>1. disagree > 0 => disagree + 1 < frame BY <2>4, <2>7, <3>2
      <4>2. frame > 1 BY <2>7, <3>2
      <4> HIDE DEF DInv, Numbers, EngagedIsAllowed
      <4> QED BY <2>3, <2>7, <3>2, <4>1, <4>2
    <3>3. Ran("pandad")' = 0 BY <2>1
    <3> HIDE DEF Ran
    <3> QED BY <2>1, <2>3, <2>7, <3>1, <3>2, <3>3 DEF One
  <2>9. Seen'
    <3>1. ASSUME Against', ~pandaStates PROVE disagree' <= mismatch_counter + Period
      <4>1. disagree > 0 => disagree + 1 <= mismatch_counter + Period
        BY <2>4, <2>7, <3>1
      <4> HIDE DEF DInv, Numbers, EngagedIsAllowed
      <4> QED BY <2>3, <2>7, <3>1, <4>1
    <3>2. Ran("selfdrived")' = 0 BY <2>1
    <3> HIDE DEF Ran
    <3> QED BY <2>1, <2>3, <2>7, <3>1, <3>2
  <2>10. Cancelled' BY <2>1, <2>2, <2>4
  <2> QED BY <2>5, <2>6, <2>8, <2>9, <2>10
<1>10. CASE \E p \in Processes : Stop(p) \/ Resume(p)
  BY <1>10, ElsewhereKeepsDInv DEF Stop, Resume, sd, pandadVars, panda, history
<1>11. CASE UNCHANGED vars
  BY <1>11, ElsewhereKeepsDInv DEF vars, schedule, sd, pandadVars, panda, history
<1> QED
  BY <1>1, <1>2, <1>3, <1>4, <1>5, <1>6, <1>7, <1>8, <1>9, <1>10, <1>11 DEF Next, Step

\* selfdrived is not engaged against the panda for longer than Agreement while
\* both it and pandad run, for all limits and whoever else stops.
THEOREM AgreementTheorem == Spec => []EngagedIsAllowed
<1>1. DInv => EngagedIsAllowed BY DEF DInv
<1> QED BY <1>1, InitDInv, NextDInv, PTL DEF Spec
\* Each process and each tick keeps the types: counters are capped, CAN messages expire.
LEMMA NextTypeOK == TypeOK /\ [Next]_vars => TypeOK'
<1> SUFFICES ASSUME TypeOK, [Next]_vars PROVE TypeOK' OBVIOUS
<1>0. /\ {Alive, SendLimit, Period, MismatchLimit, HeartbeatLimit, DisengagedLimit} \subseteq Nat \ {0}
      /\ MaxStops \in Nat /\ Bound \in Nat /\ Agreement \in Nat
  BY Limits, Frames, ControlLoopAssumption DEF ControlLoopAssumption
<1> USE <1>0 DEF TypeOK
<1>1. CASE Set
  BY <1>1 DEF Set, schedule, sd, controls, cardVars, pandadVars
<1>2. CASE Cancel
  BY <1>2 DEF Cancel, schedule, sd, controls, cardVars, pandadVars, history
<1>3. CASE Selfdrived
  <2>1. enabled' \in BOOLEAN /\ selfdriveState' \in BOOLEAN BY <1>3, Zenon DEF Selfdrived
  <2>2. mismatch_counter' \in 0..MismatchLimit BY <1>3 DEF Selfdrived, CountMismatch, Upto
  <2>3. unwanted' \in 0..(Bound + 1) BY <1>3 DEF Selfdrived
  <2> QED BY <1>3, <2>1, <2>2, <2>3 DEF Selfdrived, Runs, controls, cardVars, pandadVars, panda
<1>4. CASE Controlsd
  BY <1>4 DEF Controlsd, Runs, sd, cardVars, pandadVars, panda, history
<1>5. CASE Card
  <2>1. CC' \in BOOLEAN /\ ccUnread' \in BOOLEAN BY <1>5, Zenon DEF Card
  <2>2. ccAge' \in 0..Alive /\ sendcan' \subseteq 0..(SendLimit - 1) BY <1>5 DEF Card
  <2> QED BY <1>5, <2>1, <2>2 DEF Card, Runs, sd, controls, pandadVars, panda, history
<1>6. CASE CanSend
  BY <1>6 DEF CanSend, Runs, sd, controls, cardVars, pandadVars, panda
<1>7. CASE PandadRound
  BY <1>7 DEF PandadRound, Runs, sd, controls, cardVars, history
<1>8. CASE PandadFrame
  BY <1>8, NextFrame DEF PandadFrame, Runs, sd, controls, cardVars, panda, history
<1>9. CASE Tick
  <2>1. controls_allowed' \in BOOLEAN /\ actuating' \in BOOLEAN BY <1>9, Zenon DEF Tick, PandaTick
  <2>2. heartbeatAge' \in 0..HeartbeatLimit /\ disengagedFor' \in 0..DisengagedLimit
    BY <1>9 DEF Tick, PandaTick, Older, Upto
  <2>3. /\ ccAge' \in 0..Alive /\ ssAge' \in 0..Alive
        /\ unwanted' \in 0..(Bound + 1) /\ disagree' \in 0..(Agreement + 1)
    BY <1>9 DEF Tick, Older, Upto
  <2>4. sendcan' \subseteq 0..(SendLimit - 1) /\ toRun' \subseteq Processes BY <1>9 DEF Tick
  <2>5. /\ UNCHANGED <<stopped, stops, button, sd, unread, controls, ccUnread, CC, frame, engaged,
                       pandaStates, heartbeatEngaged>>
    BY <1>9 DEF Tick, PandaTick
  <2> QED BY <2>1, <2>2, <2>3, <2>4, <2>5 DEF sd, controls
<1>10. CASE \E p \in Processes : Stop(p) \/ Resume(p)
  <2>1. stopped' \subseteq Processes /\ stops' \in 0..MaxStops
    BY <1>10 DEF Stop, Resume
  <2>2. UNCHANGED <<toRun, button, sd, unread, controls, ccUnread, cardVars, sendcan, pandadVars,
                    panda, history>>
    BY <1>10, Zenon DEF Stop, Resume
  <2> QED BY <2>1, <2>2 DEF sd, controls, cardVars, pandadVars, panda, history
<1>11. CASE UNCHANGED vars
  BY <1>11 DEF vars, schedule, sd, controls, cardVars, pandadVars, panda, history
<1> QED
  BY <1>1, <1>2, <1>3, <1>4, <1>5, <1>6, <1>7, <1>8, <1>9, <1>10, <1>11 DEF Next, Step

\* Every counter stays within its limit, for all limits.
THEOREM TypeCorrect == Spec => []TypeOK
<1>1. ASSUME Init PROVE TypeOK
  <2>1. /\ enabled \in BOOLEAN /\ selfdriveState \in BOOLEAN /\ ss \in BOOLEAN /\ carControl \in BOOLEAN
        /\ ccUnread \in BOOLEAN /\ CC \in BOOLEAN /\ engaged \in BOOLEAN /\ pandaStates \in BOOLEAN
        /\ controls_allowed \in BOOLEAN /\ heartbeatEngaged \in BOOLEAN /\ actuating \in BOOLEAN
    BY <1>1, Zenon DEF Init
  <2> QED
    BY <1>1, <2>1, Limits, Frames, ControlLoopAssumption DEF ControlLoopAssumption, Init, TypeOK
<1> QED BY <1>1, NextTypeOK, PTL DEF Spec
===============================================================================

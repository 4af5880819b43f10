---------------------------- MODULE UpdaterProofs ----------------------------
(***************************************************************************)
(* What holds of the updater for every number of versions and of power     *)
(* failures.  The argument: both changes of the flag are synced, so the    *)
(* marker on the disk and the one in memory never differ (Synced), and     *)
(* nothing writes to the finalized copy or to the other AGNOS slot while   *)
(* the marker is there (Sealed).  The second part of the module is about   *)
(* the start of a drive.                                                   *)
(***************************************************************************)
EXTENDS Updater, DriveCycle, TLAPS

AgnosReady(tree) == system = Os[tree] \/ slot = Os[tree]

\* No power failure changes the marker, or the copy it marks.
Synced ==
  /\ synced.consistent = consistent
  /\ consistent => synced.finalized = finalized

Sealed == consistent => finalized \in Versions /\ AgnosReady(finalized)

\* The launcher: AGNOS is only swapped when no marked copy waits for it, and
\* between the renames both trees are complete.
Booting ==
  /\ boot # "up" => updated = "off" /\ merged = Absent
  /\ boot = "up" \/ consistent => base = Absent \/ system = Os[base]
  /\ boot \in {"agnos", "activate"} => ~consistent
  /\ base = Absent <=> boot \in {"swap", "gone"}
  /\ base = Absent => old \in Versions /\ consistent

\* What each step of updated has behind it.
Preparing ==
  /\ updated \in {"staging", "checkout", "agnos", "flash", "finalize", "copy", "mark"} => ~consistent
  /\ updated \in {"agnos", "flash", "finalize", "copy", "mark"} => merged \in Versions
  /\ updated \in {"params", "check", "fetch", "checkout"} => merged # Absent
  /\ updated \in {"finalize", "copy", "mark"} => AgnosReady(merged)
  /\ updated = "mark" => finalized = merged

\* A backup is only there until the overlay is mounted.
NoBackup ==
  /\ merged # Absent => old = Absent
  /\ consistent /\ boot = "up" /\ updated \notin {"off", "start"} => old = Absent
  /\ UpdateAvailable /\ updated = "sleep" => consistent

IInv == TypeOK /\ Synced /\ Sealed /\ Booting /\ Preparing /\ NoBackup

LEMMA InitIInv == Init => IInv
<1> SUFFICES ASSUME Init PROVE IInv OBVIOUS
<1> USE UpdaterAssumption DEF Init
<1>1. 1 \in Versions /\ Os[1] \in Systems BY DEF Versions
<1>2. TypeOK
  <2>1. synced \in Marks BY DEF Marks, Trees
  <2>2. crashes \in 0..MaxCrashes OBVIOUS
  <2> QED BY <1>1, <2>1, <2>2 DEF TypeOK, Trees, Steps
<1>3. Synced /\ Sealed /\ Preparing /\ NoBackup BY DEF Synced, Sealed, Preparing, NoBackup
<1>4. Booting BY <1>1 DEF Booting
<1> QED BY <1>2, <1>3, <1>4 DEF IInv

\* The device is switched off and on, or something else changes around it.
LEMMA EnvironmentStep ==
  ASSUME IInv,
         PowerFailure \/ Reboot \/ Publish \/ TouchGit \/ Settle \/ NothingToLaunch
  PROVE  IInv'
<1> USE UpdaterAssumption
<1> USE DEF IInv, TypeOK, Marks, Trees, Versions, Steps, Synced, Sealed, Booting, Preparing,
            NoBackup, AgnosReady
<1>1. CASE PowerFailure
  BY <1>1 DEF PowerFailure, Marked, agnos
<1>2. CASE Reboot
  BY <1>2 DEF Reboot, Marked, environment, agnos
<1>3. CASE Publish
  BY <1>3 DEF Publish, files, agnos, process
<1>4. CASE TouchGit
  BY <1>4 DEF TouchGit, environment, agnos, process
<1>5. CASE Settle
  BY <1>5 DEF Settle, files, agnos, process
<1>6. CASE NothingToLaunch
  <2>1. TypeOK' BY <1>6 DEF NothingToLaunch, vars, environment, files, agnos, process
  <2>2. Synced' /\ Sealed' BY <1>6 DEF NothingToLaunch, vars, environment, files, agnos, process
  <2>3. Booting' /\ Preparing' /\ NoBackup'
    BY <1>6 DEF NothingToLaunch, vars, environment, files, agnos, process
  <2> QED BY <2>1, <2>2, <2>3 DEF IInv
<1> QED BY <1>1, <1>2, <1>3, <1>4, <1>5, <1>6

\* The launcher and AGNOS's own update at boot.
LEMMA LauncherStep ==
  ASSUME IInv,
         MoveBaseAway \/ MoveFinalizedIn \/ NeedsAgnos \/ StartManager \/ VerifyAndSwap \/
         SetActive \/ FlashAtBoot
  PROVE  IInv'
<1> USE UpdaterAssumption
<1> USE DEF IInv, TypeOK, Marks, Trees, Versions, Steps, Synced, Sealed, Booting, Preparing,
            NoBackup, AgnosReady
<1>1. CASE MoveBaseAway
  <2>1. /\ boot = "launch" /\ consistent /\ old = Absent
        /\ old' = base /\ base' = Absent /\ boot' = "swap"
        /\ UNCHANGED <<finalized, consistent, overlayInit, gitNewer, synced, merged, UpdateAvailable>>
        /\ UNCHANGED <<remote, calm, crashes, system, slot, updated, known, first>>
    BY <1>1 DEF MoveBaseAway, UpdateFound, environment, agnos, process
  <2>2. base \in Versions
    BY <2>1
  <2>3. TypeOK'
    BY <2>1, <2>2
  <2>4. Synced' /\ Sealed'
    BY <2>1
  <2>5. Booting' /\ Preparing' /\ NoBackup'
    BY <2>1, <2>2
  <2> QED BY <2>3, <2>4, <2>5 DEF IInv
<1>2. CASE MoveFinalizedIn
  BY <1>2 DEF MoveFinalizedIn, Marked, environment, agnos, process
<1>3. CASE NeedsAgnos
  BY <1>3 DEF NeedsAgnos, UpdateFound, environment, files, agnos, process
<1>4. CASE StartManager
  <2>1. UpdateAvailable' \in BOOLEAN
    BY <1>4, Zenon DEF StartManager, UpdateFound, environment, files, agnos, process
  <2>2. synced' \in Marks
    BY <1>4, SMT DEF StartManager, UpdateFound, environment, files, agnos, process
  <2>3. TypeOK'
    BY <1>4, <2>1, <2>2 DEF StartManager, UpdateFound, environment, files, agnos, process
  <2>4. Synced' /\ Sealed' BY <1>4 DEF StartManager, UpdateFound, environment, files, agnos, process
  <2>5. Booting' /\ Preparing' /\ NoBackup'
    BY <1>4 DEF StartManager, UpdateFound, environment, files, agnos, process
  <2> QED BY <2>3, <2>4, <2>5 DEF IInv
<1>5. CASE VerifyAndSwap
  BY <1>5 DEF VerifyAndSwap, environment, files, agnos, process
<1>6. CASE SetActive
  BY <1>6 DEF SetActive, environment, files, process
<1>7. CASE FlashAtBoot
  BY <1>7 DEF FlashAtBoot, environment, files, agnos, process
<1> QED BY <1>1, <1>2, <1>3, <1>4, <1>5, <1>6, <1>7

\* updated starts, is stopped, and prepares the staging area.
LEMMA OverlayStep ==
  ASSUME IInv,
         Begin \/ Interrupt \/ Invalidate \/ KeepOverlay \/ ClearStaging \/ MountOverlay \/
         StartRound
  PROVE  IInv'
<1> USE UpdaterAssumption
<1> USE DEF IInv, TypeOK, Marks, Trees, Versions, Steps, Synced, Sealed, Booting, Preparing,
            NoBackup, AgnosReady
<1>1. CASE Begin
  BY <1>1 DEF Begin, At, Elsewhere, files, agnos, environment
<1>2. CASE Interrupt
  <2>1. UpdateAvailable' \in BOOLEAN
    BY <1>2, Zenon DEF Interrupt, Goto, Elsewhere, files, agnos, environment
  <2>2. synced' \in Marks BY <1>2, SMT DEF Interrupt, Goto, Elsewhere, files, agnos, environment
  <2>3. TypeOK' BY <1>2, <2>1, <2>2 DEF Interrupt, Goto, Elsewhere, files, agnos, environment
  <2>4. Synced' /\ Sealed' BY <1>2 DEF Interrupt, Goto, Elsewhere, files, agnos, environment
  <2>5. Booting' /\ Preparing' /\ NoBackup'
    BY <1>2 DEF Interrupt, Goto, Elsewhere, files, agnos, environment
  <2> QED BY <2>3, <2>4, <2>5 DEF IInv
<1>3. CASE Invalidate
  <2>1. UpdateAvailable' \in BOOLEAN
    BY <1>3, Zenon
    DEF Invalidate, set_consistent_flag, At, Goto, Elsewhere, agnos, Marked, environment
  <2>2. synced' \in Marks
    BY <1>3, SMT
    DEF Invalidate, set_consistent_flag, At, Goto, Elsewhere, agnos, Marked, environment
  <2>3. TypeOK'
    <3>1. UNCHANGED <<remote, calm, crashes, base, old, gitNewer, merged, system, slot, boot>>
      BY <1>3 DEF Invalidate, Elsewhere, agnos, environment
    <3>2. /\ updated' \in Steps /\ known' \in Versions \cup {Absent} /\ first' \in BOOLEAN
          /\ finalized' \in Trees /\ consistent' \in BOOLEAN /\ overlayInit' \in BOOLEAN
      BY <1>3 DEF Invalidate, set_consistent_flag, At, Goto, Elsewhere
    <3> QED BY <3>1, <3>2, <2>1, <2>2
  <2>4. Synced' /\ Sealed'
    BY <1>3 DEF Invalidate, set_consistent_flag, At, Goto, Elsewhere, agnos, Marked, environment
  <2>5. Booting' /\ Preparing' /\ NoBackup'
    BY <1>3 DEF Invalidate, set_consistent_flag, At, Goto, Elsewhere, agnos, Marked, environment
  <2> QED BY <2>3, <2>4, <2>5 DEF IInv
<1>4. CASE KeepOverlay
  BY <1>4 DEF KeepOverlay, OverlayValid, At, Goto, Elsewhere, files, agnos, environment
<1>5. CASE ClearStaging
  BY <1>5
  DEF ClearStaging, OverlayValid, set_consistent_flag, At, Goto, Elsewhere, agnos, Marked,
      environment
<1>6. CASE MountOverlay
  BY <1>6 DEF MountOverlay, Marked, At, Goto, Elsewhere, agnos, environment
<1>7. CASE StartRound
  <2>1. UpdateAvailable' \in BOOLEAN
    BY <1>7, Zenon DEF StartRound, update_ready, At, Elsewhere, files, agnos, environment
  <2>2. synced' \in Marks
    BY <1>7, SMT DEF StartRound, update_ready, At, Elsewhere, files, agnos, environment
  <2>3. TypeOK'
    BY <1>7, <2>1, <2>2 DEF StartRound, update_ready, At, Elsewhere, files, agnos, environment
  <2>4. Synced' /\ Sealed'
    BY <1>7 DEF StartRound, update_ready, At, Elsewhere, files, agnos, environment
  <2>5. Booting' /\ Preparing' /\ NoBackup'
    BY <1>7 DEF StartRound, update_ready, At, Elsewhere, files, agnos, environment
  <2> QED BY <2>3, <2>4, <2>5 DEF IInv
<1> QED BY <1>1, <1>2, <1>3, <1>4, <1>5, <1>6, <1>7

\* updated fetches, flashes, copies and marks.
LEMMA FetchStep ==
  ASSUME IInv,
         CheckForUpdate \/ SkipFetch \/ FetchUpdate \/ Checkout \/ SameAgnos \/ BeginFlash \/
         EndFlash \/ BeginCopy \/ EndCopy \/ MarkConsistent \/ Fail \/ RemoveOverlayInit \/
         Report \/ NextRound
  PROVE  IInv'
<1> USE UpdaterAssumption
<1> USE DEF IInv, TypeOK, Marks, Trees, Versions, Steps, Synced, Sealed, Booting, Preparing,
            NoBackup, AgnosReady
<1>1. CASE CheckForUpdate
  BY <1>1 DEF CheckForUpdate, At, Elsewhere, files, agnos, environment
<1>2. CASE SkipFetch
  BY <1>2 DEF SkipFetch, At, Goto, Elsewhere, files, agnos, environment
<1>3. CASE FetchUpdate
  BY <1>3 DEF FetchUpdate, set_consistent_flag, At, Goto, Elsewhere, agnos, Marked, environment
<1>4. CASE Checkout
  BY <1>4 DEF Checkout, At, Goto, Elsewhere, files, agnos, environment
<1>5. CASE SameAgnos
  BY <1>5 DEF SameAgnos, At, Goto, Elsewhere, files, agnos, environment
<1>6. CASE BeginFlash
  <2>1. TypeOK'
    BY <1>6 DEF BeginFlash, set_consistent_flag, At, Goto, Elsewhere, agnos, Marked, environment
  <2>2. Synced' /\ Sealed'
    BY <1>6 DEF BeginFlash, set_consistent_flag, At, Goto, Elsewhere, agnos, Marked, environment
  <2>3. Booting' /\ Preparing' /\ NoBackup'
    BY <1>6 DEF BeginFlash, set_consistent_flag, At, Goto, Elsewhere, agnos, Marked, environment
  <2> QED BY <2>1, <2>2, <2>3 DEF IInv
<1>7. CASE EndFlash
  BY <1>7 DEF EndFlash, At, Goto, Elsewhere, files, environment
<1>8. CASE BeginCopy
  <2>1. TypeOK'
    <3>1. UNCHANGED <<remote, calm, crashes, base, old, gitNewer, merged, system, slot, UpdateAvailable, boot>>
      BY <1>8 DEF BeginCopy, Elsewhere, agnos, environment
    <3>2. /\ updated' \in Steps /\ known' \in Versions \cup {Absent} /\ first' \in BOOLEAN
          /\ finalized' \in Trees /\ consistent' \in BOOLEAN /\ overlayInit' \in BOOLEAN
      BY <1>8 DEF BeginCopy, set_consistent_flag, At, Goto, Elsewhere
    <3>3. synced' \in Marks
      BY <1>8 DEF BeginCopy, set_consistent_flag, Marked, Elsewhere
    <3> QED BY <3>1, <3>2, <3>3
  <2>2. Synced' /\ Sealed'
    BY <1>8 DEF BeginCopy, set_consistent_flag, At, Goto, Elsewhere, agnos, Marked, environment
  <2>3. Booting' /\ Preparing' /\ NoBackup'
    BY <1>8 DEF BeginCopy, set_consistent_flag, At, Goto, Elsewhere, agnos, Marked, environment
  <2> QED BY <2>1, <2>2, <2>3 DEF IInv
<1>9. CASE EndCopy
  BY <1>9 DEF EndCopy, At, Goto, Elsewhere, agnos, environment
<1>10. CASE MarkConsistent
  BY <1>10 DEF MarkConsistent, set_consistent_flag, At, Goto, Elsewhere, agnos, Marked, environment
<1>11. CASE Fail
  BY <1>11 DEF Fail, Fails, At, Goto, Elsewhere, files, agnos, environment
<1>12. CASE RemoveOverlayInit
  <2>1. UpdateAvailable' \in BOOLEAN
    BY <1>12, Zenon DEF RemoveOverlayInit, At, Goto, Elsewhere, agnos, environment
  <2>2. synced' \in Marks
    BY <1>12, SMT DEF RemoveOverlayInit, At, Goto, Elsewhere, agnos, environment
  <2>3. TypeOK' BY <1>12, <2>1, <2>2 DEF RemoveOverlayInit, At, Goto, Elsewhere, agnos, environment
  <2>4. Synced' /\ Sealed' BY <1>12 DEF RemoveOverlayInit, At, Goto, Elsewhere, agnos, environment
  <2>5. Booting' /\ Preparing' /\ NoBackup'
    BY <1>12 DEF RemoveOverlayInit, At, Goto, Elsewhere, agnos, environment
  <2> QED BY <2>3, <2>4, <2>5 DEF IInv
<1>13. CASE Report
  BY <1>13 DEF Report, update_ready, At, Goto, Elsewhere, files, agnos, environment
<1>14. CASE NextRound
  BY <1>14 DEF NextRound, At, Goto, Elsewhere, files, agnos, environment
<1> QED BY <1>1, <1>2, <1>3, <1>4, <1>5, <1>6, <1>7, <1>8, <1>9, <1>10, <1>11, <1>12, <1>13, <1>14

LEMMA NextIInv == IInv /\ [Next]_vars => IInv'
<1> SUFFICES ASSUME IInv, [Next]_vars PROVE IInv' OBVIOUS
<1>1. CASE Next
  BY <1>1, EnvironmentStep, LauncherStep, OverlayStep, FetchStep DEF Next, Launcher, Updated
<1>2. CASE UNCHANGED vars
  BY <1>2 DEF vars, environment, files, agnos, process, IInv, TypeOK, Synced, Sealed, Booting,
              Preparing, NoBackup, AgnosReady
<1> QED BY <1>1, <1>2

\* The strengthened invariant, for every number of versions and crashes.
THEOREM InductiveInvariant == Spec => []IInv
BY InitIInv, NextIInv, PTL DEF Spec

\* The variables have their types: BASEDIR is never a partial tree.
THEOREM TypeCorrect == Spec => []TypeOK
<1>1. IInv => TypeOK BY DEF IInv
<1> QED BY <1>1, InductiveInvariant, PTL

\* Wherever updated or the launcher is cut off, the consistent marker
\* (set_consistent_flag) tells the truth about the copy and about AGNOS.
THEOREM ConsistentTheorem == Spec => []ConsistentIsComplete
<1>1. IInv => ConsistentIsComplete BY DEF IInv, Sealed, AgnosReady, ConsistentIsComplete
<1> QED BY <1>1, InductiveInvariant, PTL

\* The launcher never leaves the disk without a complete openpilot.
THEOREM NothingLostTheorem == Spec => []NothingLost
<1>1. IInv => NothingLost BY DEF IInv, Sealed, Booting, NothingLost
<1> QED BY <1>1, InductiveInvariant, PTL

\* UpdateAvailable is only shown for a marked copy that no backup of an
\* earlier swap keeps the launcher from installing.
THEOREM InstallableTheorem == Spec => []AvailableIsInstallable
<1>1. IInv => AvailableIsInstallable BY DEF IInv, NoBackup, AvailableIsInstallable, At
<1> QED BY <1>1, InductiveInvariant, PTL

(***************************************************************************)
(* How a drive begins and ends.  hardwared only starts a drive on a        *)
(* message that pandad sent after it had taken its setter back (Between),  *)
(* so no configuration of pandad spans two drives (DuringDrive); the       *)
(* manager stops card before it looks at `started` again (StoppedFirst),   *)
(* so what the parameters say after they were cleared was written by the   *)
(* latest card (Written), and a car's model on the panda was fetched from  *)
(* them (Configured).  For the queries, what pandad multiplexes is what    *)
(* card asked for, except while a request is under way, or pandad has      *)
(* already taken everything back (Handshake).                              *)
(***************************************************************************)
Configuring == pandad \in {"multiplex", "fetch", "set"}
Wanted == started_prev /\ (proc = "none" \/ shutting_down)
Running == proc = "alive" /\ ~shutting_down
Multiplexing == initialized /\ prev_obd

\* At most one card for every drive: there is a drive without one when the manager has
\* to start card, or has not yet seen that `started` rose.
Counted ==
  /\ instance <= drives
  /\ Wanted \/ (started /\ ~started_prev) => instance < drives

\* The manager stops card before it looks at `started` again.
StoppedFirst == manager = "update" /\ ~started_prev => proc = "none" \/ shutting_down

\* What the parameters say was written by the latest card.
Written ==
  /\ ControlsReady => CarParams = instance /\ card = "ready"
  /\ Running /\ card \in {"run", "enable", "ready"} => CarParams = instance
  /\ Wanted => ~ControlsReady /\ CarParams = 0

\* pandad configures the panda for a drive that lasts, or that has just ended.
DuringDrive == Configuring => IF started THEN started_prev ELSE ~pandaStates.new

\* Between two drives pandad takes its setter back.
Between ==
  /\ ~started /\ pandaStates.new => panda.mode \notin {"car", "elm327"} /\ ~initialized
  /\ started /\ ~started_prev => /\ panda.mode \notin {"car", "elm327"} /\ ~initialized
                                 /\ ~Configuring

Configured ==
  /\ pandad = "set" => ControlsReady
  /\ panda.mode = "car" /\ started_prev => ControlsReady /\ panda.params = CarParams

Elm327 == panda.mode = "elm327" => initialized /\ panda.obd = prev_obd

\* The setter was taken back while this card still ran.
TakenBack == ~initialized /\ ~Configuring /\ panda.mode # "elm327" /\ ~started_prev

Handshake ==
  restarts = 0 =>
    /\ Wanted => ~ObdMultiplexingEnabled /\ ~Multiplexing
    /\ pandad # "down"
    /\ Running => \/ TakenBack
                  \/ /\ card \in {"can", "query", "request"} => Multiplexing = ObdMultiplexingEnabled
                     /\ card = "request" => ~ObdMultiplexingChanged
                     /\ card = "wait" /\ ObdMultiplexingChanged => Multiplexing = ObdMultiplexingEnabled

PromptInv == StoppedFirst /\ Written /\ DuringDrive /\ Between /\ Configured /\ Elm327 /\ Handshake
DriveInv == DriveTypeOK /\ Counted /\ (Prompt => PromptInv)

\* The safety models are told apart by their modes.
LEMMA Models ==
  /\ Silent.mode = "silent" /\ NoOutput.mode = "noOutput"
  /\ \A b : Elm(b).mode = "elm327" /\ Elm(b).obd = b
  /\ \A i : CarModel(i).mode = "car" /\ CarModel(i).params = i
BY DEF Silent, NoOutput, Elm, CarModel

\* Every step keeps the types, and the count of the cards.
LEMMA DriveTypes == ASSUME DriveTypeOK, Counted, DriveNext PROVE DriveTypeOK' /\ Counted'
<1> USE DriveCycleAssumption DEF DriveTypeOK, Counted, Wanted, Instances
<1> DEFINE TC == DriveTypeOK' /\ Counted'
<1>1. CASE Ignition
  BY <1>1 DEF Ignition, managerVars, handshake, cardProcess, cardVars, pandadVars
<1>2. CASE Hardwared
  <2>1. PICK start \in BOOLEAN : PublishStarted(start)
    BY <1>2 DEF Hardwared, HardwaredUpdate, HardwaredTimeout
  <2>2. /\ pandaStates' \in [ignition : BOOLEAN, new : BOOLEAN]
        /\ UNCHANGED <<ignition, managerVars, handshake, cardProcess, cardVars, onroadEvents, pandadVars>>
    <3>1. CASE HardwaredUpdate  BY <3>1 DEF HardwaredUpdate
    <3>2. CASE HardwaredTimeout  BY <3>2 DEF HardwaredTimeout
    <3> QED BY <1>2, <3>1, <3>2 DEF Hardwared
  <2>3. /\ started' = start /\ drives \in Nat /\ drives' \in 0..MaxDrives
        /\ drives' = IF start /\ ~started THEN drives + 1 ELSE drives
    BY <2>1 DEF PublishStarted
  <2>4. DriveTypeOK'
    BY <2>2, <2>3 DEF managerVars, handshake, cardProcess, cardVars, pandadVars
  <2>5. Counted'
    BY <2>2, <2>3 DEF managerVars, cardProcess, cardVars
  <2> QED BY <2>4, <2>5
<1>4. CASE ManagerUpdate
  <2>0. /\ FirmwareQueryDone' \in BOOLEAN /\ ControlsReady' \in BOOLEAN /\ CarParams' \in Instances
        /\ ObdMultiplexingEnabled' \in BOOLEAN /\ ObdMultiplexingChanged' \in BOOLEAN
    <3>1. CASE started /\ ~started_prev
      <4>1. /\ FirmwareQueryDone' = FALSE /\ ControlsReady' = FALSE /\ CarParams' = 0
            /\ ObdMultiplexingEnabled' = FALSE /\ ObdMultiplexingChanged' = FALSE
        BY <1>4, <3>1 DEF ManagerUpdate
      <4>2. 0 \in Instances
        OBVIOUS
      <4> QED BY <4>1, <4>2, Zenon
    <3>2. CASE ~(started /\ ~started_prev)  BY <1>4, <3>2 DEF ManagerUpdate, handshake
    <3> QED BY <3>1, <3>2
  <2>1. DriveTypeOK'
    BY <1>4, <2>0 DEF ManagerUpdate, device, cardProcess, cardVars, pandadVars
  <2>2. Counted'
    BY <1>4 DEF ManagerUpdate, device, cardProcess, cardVars
  <2> QED BY <2>1, <2>2
<1>5. CASE WriteOnroadParams
  BY <1>5 DEF WriteOnroadParams, device, handshake, cardProcess, cardVars, pandadVars
<1>6. CASE EnsureRunning
  <2>1. CASE StartCard
    <3>1. /\ Wanted /\ instance' = instance + 1 /\ instance \in Nat /\ instance < drives
          /\ drives \in Nat /\ drives <= MaxDrives /\ drives' = drives
          /\ started' = started /\ started_prev' = started_prev
          /\ proc' = "alive" /\ shutting_down' = FALSE
      BY <1>6, <2>1 DEF EnsureRunning, StartCard, device
    <3>2. Counted' /\ instance' \in 0..MaxDrives
      BY <3>1
    <3>3. /\ requests' = 0 /\ passive' = FALSE /\ card' = "can" /\ manager' = "update" /\ onroadEvents' = "none"
          /\ device' = device /\ IsOnroad' = IsOnroad /\ handshake' = handshake /\ pandadVars' = pandadVars
      BY <1>6, <2>1 DEF EnsureRunning, StartCard
    <3>4. 0 \in 0..MaxRequests
      OBVIOUS
    <3>5. started_prev \in BOOLEAN /\ started_prev' = started_prev
      BY <3>1
    <3>6. UNCHANGED <<ignition, pandaStates, started, drives, FirmwareQueryDone, ControlsReady, CarParams,
                      ObdMultiplexingEnabled, ObdMultiplexingChanged, pandad, is_onroad, initialized,
                      safety_configured, prev_obd, restarts, panda>>
      BY <3>3 DEF device, handshake, pandadVars
    <3>7. DriveTypeOK'
      <4>1. /\ ignition' \in BOOLEAN /\ pandaStates' \in [ignition : BOOLEAN, new : BOOLEAN]
            /\ started' \in BOOLEAN /\ drives' \in 0..MaxDrives
            /\ FirmwareQueryDone' \in BOOLEAN /\ ControlsReady' \in BOOLEAN /\ CarParams' \in Instances
            /\ ObdMultiplexingEnabled' \in BOOLEAN /\ ObdMultiplexingChanged' \in BOOLEAN
        BY <3>6
      <4>2. /\ pandad' \in {"down", "poll", "multiplex", "fetch", "set"}
            /\ is_onroad' \in BOOLEAN /\ initialized' \in BOOLEAN /\ safety_configured' \in BOOLEAN
            /\ prev_obd' \in BOOLEAN /\ restarts' \in 0..MaxRestarts
            /\ panda' \in SafetyModels
        BY <3>6
      <4>3. /\ manager' \in {"update", "write", "ensure"} /\ started_prev' \in BOOLEAN /\ IsOnroad' \in BOOLEAN
            /\ proc' \in {"none", "alive", "exited"} /\ shutting_down' \in BOOLEAN
            /\ card' \in {"can", "query", "request", "wait", "publish", "run", "enable", "ready"}
        BY <3>1, <3>3, <3>5
      <4>4. /\ requests' \in 0..MaxRequests /\ passive' \in BOOLEAN
            /\ onroadEvents' \in {"none", "initializing", "ready"}
        BY <3>3, <3>4
      <4> QED BY <3>2, <4>1, <4>2, <4>3, <4>4
    <3> QED BY <3>2, <3>7
  <2>2. CASE KeepCard
    BY <1>6, <2>2 DEF EnsureRunning, KeepCard, cardProcess, cardVars, device, handshake, pandadVars
  <2>3. CASE StopCard
    BY <1>6, <2>3 DEF EnsureRunning, StopCard, cardVars, device, handshake, pandadVars
  <2> QED BY <1>6, <2>1, <2>2, <2>3 DEF EnsureRunning
<1>7. CASE CardExit \/ CardCrash
  BY <1>7 DEF CardExit, CardCrash, device, managerVars, handshake, cardVars, pandadVars
<1>8. CASE Card \/ \E obd \in BOOLEAN : Request(obd)
  <2>1. /\ UNCHANGED <<device, managerVars, cardProcess, instance, onroadEvents, pandadVars>>
        /\ requests' \in 0..MaxRequests /\ passive' \in BOOLEAN
        /\ card' \in {"can", "query", "request", "wait", "publish", "run", "enable", "ready"}
    BY <1>8 DEF Card, Request, WaitForCan, Acknowledged, PutRequest, QueryDone, PublishCarParams, ControlsUpdate,
                PutControlsReady, CardOnly
  <2>2. /\ FirmwareQueryDone' \in BOOLEAN /\ ControlsReady' \in BOOLEAN /\ CarParams' \in Instances
        /\ ObdMultiplexingEnabled' \in BOOLEAN /\ ObdMultiplexingChanged' \in BOOLEAN
    BY <1>8 DEF Card, Request, WaitForCan, Acknowledged, PutRequest, QueryDone, PublishCarParams, ControlsUpdate,
                PutControlsReady, handshake
  <2> QED BY <2>1, <2>2 DEF device, managerVars, cardProcess, pandadVars
<1>9. CASE Selfdrived
  BY <1>9 DEF Selfdrived, device, managerVars, handshake, cardProcess, cardVars, pandadVars
<1>10. CASE Pandad \/ PandadExit
  <2>1. /\ UNCHANGED <<ignition, started, drives, managerVars, cardProcess, cardVars, onroadEvents>>
        /\ UNCHANGED <<FirmwareQueryDone, ControlsReady, CarParams, ObdMultiplexingEnabled>>
        /\ ObdMultiplexingChanged' \in BOOLEAN
    BY <1>10 DEF Pandad, PandadPoll, UpdateMultiplexingMode, FetchCarParams, SetSafetyMode, PandadStart, PandadExit,
                 PandadOnly, device, handshake
  <2>2. pandaStates' \in [ignition : BOOLEAN, new : BOOLEAN]
    <3>1. CASE PandadPoll
      BY <3>1 DEF PandadPoll
    <3>2. CASE UNCHANGED pandaStates
      BY <3>2
    <3> QED BY <1>10, <3>1, <3>2 DEF Pandad, UpdateMultiplexingMode, FetchCarParams, SetSafetyMode, PandadStart,
                                      PandadExit, device
  <2>3. restarts' \in 0..MaxRestarts
    BY <1>10 DEF Pandad, PandadPoll, UpdateMultiplexingMode, FetchCarParams, SetSafetyMode, PandadStart, PandadExit,
                 PandadOnly
  <2>4. /\ pandad' \in {"down", "poll", "multiplex", "fetch", "set"}
        /\ is_onroad' \in BOOLEAN /\ initialized' \in BOOLEAN /\ safety_configured' \in BOOLEAN
        /\ prev_obd' \in BOOLEAN
    BY <1>10 DEF Pandad, PandadPoll, UpdateMultiplexingMode, FetchCarParams, SetSafetyMode, PandadStart, PandadExit
  <2>5. panda' \in SafetyModels
    <3>1. /\ Silent \in SafetyModels /\ NoOutput \in SafetyModels
          /\ \A b \in BOOLEAN : Elm(b) \in SafetyModels
          /\ \A i \in Instances : CarModel(i) \in SafetyModels
      BY DEF SafetyModels
    <3> QED BY <1>10, <3>1 DEF Pandad, PandadPoll, UpdateMultiplexingMode, FetchCarParams, SetSafetyMode, PandadStart,
                 PandadExit
  <2> QED BY <2>1, <2>2, <2>3, <2>4, <2>5 DEF managerVars, cardProcess, cardVars
<1> QED BY <1>1, <1>2, <1>4, <1>5, <1>6, <1>7, <1>8, <1>9, <1>10 DEF DriveNext, Manager

\* hardwared: a drive begins when pandad has said that the last one is over.
LEMMA HardwaredKeeps ==
  ASSUME DriveTypeOK, Prompt, PromptInv, Hardwared
  PROVE  PromptInv'
<1> USE DEF PromptInv
<1>1. PICK start \in BOOLEAN : /\ PublishStarted(start)
                               /\ start => pandaStates.new
                               /\ (~start /\ started) \/ ~pandaStates'.new
                               /\ pandad # "down" => pandaStates.new
  <2>1. CASE HardwaredUpdate
    BY <2>1 DEF HardwaredUpdate, DriveTypeOK
  <2>2. CASE HardwaredTimeout
    BY <2>2 DEF HardwaredTimeout, DriveTypeOK
  <2> QED BY <2>1, <2>2 DEF Hardwared
<1>2. UNCHANGED <<ignition, managerVars, handshake, cardProcess, cardVars, onroadEvents, pandadVars>>
  <2>1. CASE HardwaredUpdate  BY <2>1 DEF HardwaredUpdate
  <2>2. CASE HardwaredTimeout  BY <2>2 DEF HardwaredTimeout
  <2> QED BY <2>1, <2>2 DEF Hardwared
<1>3. /\ started' = start
      /\ start # started => started_prev = started
      /\ ~pandaStates'.new
  <2>1. CASE HardwaredUpdate  BY <2>1, <1>1 DEF HardwaredUpdate, PublishStarted, DriveTypeOK
  <2>2. CASE HardwaredTimeout  BY <2>2, <1>1 DEF HardwaredTimeout, PublishStarted, DriveTypeOK
  <2> QED BY <2>1, <2>2 DEF Hardwared
<1>4. UNCHANGED <<manager, started_prev, proc, shutting_down, ControlsReady, CarParams, ObdMultiplexingEnabled,
                  ObdMultiplexingChanged, card, instance, pandad, initialized, prev_obd, restarts, panda>>
  BY <1>2 DEF managerVars, handshake, cardProcess, cardVars, pandadVars
<1>5. StoppedFirst' /\ Written' /\ Configured' /\ Elm327' /\ Handshake'
  BY <1>4 DEF StoppedFirst, Written, Configured, Elm327, Handshake, Wanted, Running, Multiplexing, TakenBack,
              Configuring
<1>6. DuringDrive'
  BY <1>1, <1>3, <1>4 DEF DuringDrive, Configuring, DriveTypeOK
<1>7. Between'
  <2>1. ASSUME started', ~started_prev'
        PROVE  panda.mode \notin {"car", "elm327"} /\ ~initialized /\ ~Configuring
    <3>1. CASE started
      BY <2>1, <3>1, <1>4 DEF Between
    <3>2. CASE ~started
      <4>1. pandaStates.new
        BY <2>1, <1>1, <1>3
      <4> QED BY <3>2, <4>1 DEF Between, DuringDrive
    <3> QED BY <3>1, <3>2
  <2> QED BY <2>1, <1>3, <1>4 DEF Between, Configuring
<1> QED BY <1>5, <1>6, <1>7

\* The manager: it clears what the last drive left while no card runs.
LEMMA ManagerKeeps ==
  ASSUME DriveTypeOK, Prompt, PromptInv, Manager
  PROVE  PromptInv'
<1> USE DEF PromptInv
<1>1. UNCHANGED <<started, pandaStates, pandad, initialized, prev_obd, restarts, panda>>
  BY DEF Manager, ManagerUpdate, WriteOnroadParams, EnsureRunning, device, pandadVars
<1>2. Elm327'
  BY <1>1 DEF Elm327
<1>3. CASE ManagerUpdate
  <2>1. /\ manager = "update" /\ manager' \in {"write", "ensure"} /\ started_prev' = started
        /\ UNCHANGED <<proc, shutting_down, card, instance>>
    BY <1>3 DEF ManagerUpdate, cardProcess, cardVars
  <2>2. started /\ ~started_prev =>
           ~ControlsReady' /\ CarParams' = 0 /\ ~ObdMultiplexingEnabled' /\ ~ObdMultiplexingChanged'
    BY <1>3 DEF ManagerUpdate
  <2>3. ~(started /\ ~started_prev) =>
           UNCHANGED <<ControlsReady, CarParams, ObdMultiplexingEnabled, ObdMultiplexingChanged>>
    BY <1>3 DEF ManagerUpdate, handshake
  <2>4. started \in BOOLEAN /\ started_prev \in BOOLEAN
    BY DEF DriveTypeOK
  <2>5. StoppedFirst' /\ DuringDrive' /\ Between'
    BY <1>1, <2>1, <2>4 DEF StoppedFirst, DuringDrive, Between, Configuring
  <2>6. Written'
    BY <2>1, <2>2, <2>3, <2>4 DEF Written, Wanted, Running, StoppedFirst
  <2>7. Configured'
    BY <1>1, <2>1, <2>2, <2>3, <2>4 DEF Configured, Between, Configuring
  <2>8. Handshake'
    BY <1>1, <2>1, <2>2, <2>3, <2>4 DEF Handshake, StoppedFirst, Between, Wanted, Running, Multiplexing, TakenBack,
                                        Configuring
  <2> QED BY <1>2, <2>5, <2>6, <2>7, <2>8
<1>4. CASE WriteOnroadParams
  <2>1. /\ manager' = "ensure"
        /\ UNCHANGED <<started_prev, proc, shutting_down, ControlsReady, CarParams, ObdMultiplexingEnabled,
                       ObdMultiplexingChanged, card, instance>>
    BY <1>4 DEF WriteOnroadParams, handshake, cardProcess, cardVars
  <2> QED BY <1>1, <1>2, <2>1 DEF StoppedFirst, Written, DuringDrive, Between, Configured, Handshake, Wanted, Running,
                                  Multiplexing, TakenBack, Configuring
<1>5. CASE EnsureRunning
  <2>1. UNCHANGED <<started_prev, ControlsReady, CarParams, ObdMultiplexingEnabled, ObdMultiplexingChanged>>
    BY <1>5 DEF EnsureRunning, handshake
  <2>2. DuringDrive' /\ Between' /\ Configured'
    BY <1>1, <2>1 DEF DuringDrive, Between, Configured, Configuring
  <2>3. CASE StartCard
    <3>1. Wanted /\ started_prev /\ proc' = "alive" /\ shutting_down' = FALSE /\ card' = "can"
      BY <2>3 DEF StartCard, Wanted
    <3>2. Written' /\ StoppedFirst'
      BY <2>1, <3>1 DEF Written, StoppedFirst, Wanted, Running
    <3>3. Handshake'
      <4>1. ObdMultiplexingEnabled \in BOOLEAN /\ initialized \in BOOLEAN /\ prev_obd \in BOOLEAN
        BY DEF DriveTypeOK
      <4>2. restarts = 0 => pandad # "down" /\ Multiplexing = ObdMultiplexingEnabled
        BY <3>1, <4>1 DEF Handshake, Multiplexing
      <4> QED BY <1>1, <2>1, <3>1, <4>2 DEF Handshake, Multiplexing, Wanted, Running
    <3> QED BY <1>2, <2>2, <3>2, <3>3
  <2>4. CASE KeepCard
    <3>1. started_prev /\ UNCHANGED <<proc, shutting_down, card, instance>>
      BY <2>4 DEF KeepCard, cardProcess, cardVars
    <3> QED BY <1>1, <1>2, <2>1, <2>2, <3>1 DEF StoppedFirst, Written, Handshake, Wanted, Running, Multiplexing,
                                                TakenBack, Configuring
  <2>5. CASE StopCard
    <3>1. /\ ~started_prev /\ UNCHANGED <<card, instance>>
          /\ proc' = (IF proc = "exited" THEN "none" ELSE proc) /\ shutting_down' = (proc = "alive")
      BY <2>5 DEF StopCard, cardVars
    <3>2. proc \in {"none", "alive", "exited"} /\ (proc' = "none" \/ shutting_down')
      BY <3>1 DEF DriveTypeOK
    <3>3. ~Wanted' /\ ~Running'
      BY <2>1, <3>1, <3>2 DEF Wanted, Running
    <3> QED BY <1>1, <1>2, <2>1, <2>2, <3>1, <3>2, <3>3 DEF StoppedFirst, Written, Handshake
  <2> QED BY <1>5, <2>3, <2>4, <2>5 DEF EnsureRunning
<1> QED BY <1>3, <1>4, <1>5 DEF Manager

\* card, and selfdrived: a card writes for itself, one step after the other.
LEMMA CardKeeps ==
  ASSUME DriveTypeOK, Prompt, PromptInv,
         Card \/ (\E obd \in BOOLEAN : Request(obd)) \/ CardExit \/ CardCrash \/ Selfdrived \/ Ignition
  PROVE  PromptInv'
<1> USE DEF PromptInv
<1>1. UNCHANGED <<started, pandaStates, pandad, initialized, prev_obd, restarts, panda, manager, started_prev,
                  shutting_down, instance>>
  BY DEF Card, Request, WaitForCan, Acknowledged, PutRequest, QueryDone, PublishCarParams, ControlsUpdate,
         PutControlsReady, CardOnly, CardExit, CardCrash, Selfdrived, Ignition, device, managerVars, cardProcess,
         cardVars, pandadVars
<1>2. DuringDrive' /\ Between' /\ Elm327'
  BY <1>1 DEF DuringDrive, Between, Elm327, Configuring
<1>3. CASE CardExit \/ CardCrash
  <2>1. /\ proc = "alive" /\ proc' = "exited"
        /\ UNCHANGED <<ControlsReady, CarParams, ObdMultiplexingEnabled, ObdMultiplexingChanged, card>>
    BY <1>3 DEF CardExit, CardCrash, handshake, cardVars
  <2> QED BY <1>1, <1>2, <2>1 DEF StoppedFirst, Written, Configured, Handshake, Wanted, Running, Multiplexing, TakenBack,
                                  Configuring
<1>4. CASE Selfdrived \/ Ignition
  <2>1. UNCHANGED <<proc, ControlsReady, CarParams, ObdMultiplexingEnabled, ObdMultiplexingChanged, card>>
    BY <1>4 DEF Selfdrived, Ignition, handshake, cardProcess, cardVars
  <2> QED BY <1>1, <1>2, <2>1 DEF StoppedFirst, Written, Configured, Handshake, Wanted, Running, Multiplexing, TakenBack,
                                  Configuring
<1>5. CASE Card \/ \E obd \in BOOLEAN : Request(obd)
  <2>1. /\ Running /\ proc' = proc /\ ~Wanted /\ ~Wanted' /\ Running'
        /\ \/ card = "can" /\ card' = "query"
              /\ UNCHANGED <<ControlsReady, CarParams, ObdMultiplexingEnabled, ObdMultiplexingChanged>>
           \/ card = "query" /\ card' = "request" /\ ~ObdMultiplexingChanged'
              /\ UNCHANGED <<ControlsReady, CarParams, ObdMultiplexingEnabled>>
           \/ card = "request" /\ card' = "wait" /\ ObdMultiplexingEnabled' = ~ObdMultiplexingEnabled
              /\ UNCHANGED <<ControlsReady, CarParams, ObdMultiplexingChanged>>
           \/ card = "wait" /\ card' = "query" /\ ObdMultiplexingChanged
              /\ UNCHANGED <<ControlsReady, CarParams, ObdMultiplexingEnabled, ObdMultiplexingChanged>>
           \/ card = "query" /\ card' = "publish"
              /\ UNCHANGED <<ControlsReady, CarParams, ObdMultiplexingEnabled, ObdMultiplexingChanged>>
           \/ card = "publish" /\ card' = "run" /\ CarParams' = instance
              /\ UNCHANGED <<ControlsReady, ObdMultiplexingEnabled, ObdMultiplexingChanged>>
           \/ card = "run" /\ card' = "enable"
              /\ UNCHANGED <<ControlsReady, CarParams, ObdMultiplexingEnabled, ObdMultiplexingChanged>>
           \/ card = "enable" /\ card' = "ready" /\ ControlsReady'
              /\ UNCHANGED <<CarParams, ObdMultiplexingEnabled, ObdMultiplexingChanged>>
    BY <1>1, <1>5 DEF Card, Request, WaitForCan, Acknowledged, PutRequest, QueryDone, PublishCarParams, ControlsUpdate,
              PutControlsReady, CardOnly, CardAt, handshake, cardProcess, Running, Wanted
  <2>2. Written'
    BY <1>1, <2>1 DEF Written
  <2>3. Configured'
    BY <1>1, <2>1 DEF Configured, Written
  <2>4. StoppedFirst'
    BY <1>1, <2>1 DEF StoppedFirst
  <2>5. TakenBack' <=> TakenBack
    BY <1>1 DEF TakenBack, Configuring
  <2>6. Handshake'
    <3>1. /\ initialized \in BOOLEAN /\ prev_obd \in BOOLEAN /\ ObdMultiplexingEnabled \in BOOLEAN
          /\ ObdMultiplexingChanged \in BOOLEAN
      BY DEF DriveTypeOK
    <3> QED BY <1>1, <2>1, <2>5, <3>1 DEF Handshake, Multiplexing
  <2> QED BY <1>2, <2>2, <2>3, <2>4, <2>6
<1> QED BY <1>3, <1>4, <1>5

\* pandad: it serves the drive that lasts, and takes everything back after it.
LEMMA PandadKeeps ==
  ASSUME DriveTypeOK, Prompt, PromptInv, Pandad \/ PandadExit
  PROVE  PromptInv'
<1> USE DEF PromptInv
<1>1. UNCHANGED <<started, started_prev, manager, proc, shutting_down, card, instance, ControlsReady, CarParams,
                  ObdMultiplexingEnabled>>
  BY DEF Pandad, PandadPoll, UpdateMultiplexingMode, FetchCarParams, SetSafetyMode, PandadStart, PandadExit,
         PandadOnly, device, managerVars, handshake, cardProcess, cardVars
<1>2. StoppedFirst' /\ Written'
  BY <1>1 DEF StoppedFirst, Written, Wanted, Running
<1>3. /\ initialized \in BOOLEAN /\ prev_obd \in BOOLEAN /\ ObdMultiplexingEnabled \in BOOLEAN
      /\ ObdMultiplexingChanged \in BOOLEAN /\ started \in BOOLEAN /\ started_prev \in BOOLEAN
      /\ restarts \in Nat
  BY DEF DriveTypeOK
<1>4. CASE PandadPoll
  <2>1. /\ pandad = "poll" /\ started_prev = started /\ pandaStates'.new /\ ~pandaStates.new
        /\ panda' = NoOutput \/ (panda' = panda /\ started)
        /\ pandad' \in {"poll", "multiplex"}
        /\ pandad' = "multiplex" => started
        /\ IF started THEN initialized' = initialized ELSE panda' = NoOutput /\ initialized' = FALSE
        /\ UNCHANGED <<prev_obd, restarts, ObdMultiplexingChanged>>
    <3>1. /\ pandad = "poll" /\ started_prev = started /\ pandaStates'.new /\ ~pandaStates.new
          /\ UNCHANGED <<prev_obd, restarts, ObdMultiplexingChanged>>
      BY <1>4 DEF PandadPoll, PandadOnly, handshake
    <3>2. CASE started
      BY <1>4, <1>3, <3>1, <3>2 DEF PandadPoll
    <3>3. CASE ~started
      <4>1. panda' = NoOutput /\ pandad' = "poll" /\ initialized' = FALSE
        BY <1>4, <3>3 DEF PandadPoll
      <4> QED BY <3>1, <3>3, <4>1
    <3> QED BY <3>2, <3>3
  <2>2. DuringDrive' /\ Between' /\ Configured' /\ Elm327'
    BY <1>1, <1>3, <2>1, Models DEF DuringDrive, Between, Configured, Elm327, Configuring
  <2>3. Handshake'
    <3>1. CASE started
      <4>1. ~TakenBack /\ Multiplexing' = Multiplexing
        BY <1>3, <2>1, <3>1 DEF TakenBack, Multiplexing
      <4> QED BY <1>1, <2>1, <4>1 DEF Handshake, Wanted, Running
    <3>2. CASE ~started
      <4>1. TakenBack' /\ ~Wanted'
        BY <1>1, <2>1, <3>2, Models DEF TakenBack, Configuring, Wanted
      <4> QED BY <1>1, <2>1, <4>1 DEF Handshake
    <3> QED BY <3>1, <3>2
  <2> QED BY <1>2, <2>2, <2>3
<1>5. CASE UpdateMultiplexingMode
  <2>1. /\ pandad = "multiplex" /\ pandad' = "fetch" /\ initialized' = TRUE /\ prev_obd' = ObdMultiplexingEnabled
        /\ \/ panda' = Elm(ObdMultiplexingEnabled)
           \/ panda' = panda /\ initialized /\ ObdMultiplexingEnabled = Multiplexing
        /\ ObdMultiplexingChanged' = (ObdMultiplexingChanged \/ ObdMultiplexingEnabled # Multiplexing)
        /\ UNCHANGED <<pandaStates, restarts>>
    BY <1>5 DEF UpdateMultiplexingMode, PandadOnly, Multiplexing
  <2>2. DuringDrive'
    BY <1>1, <2>1 DEF DuringDrive, Configuring
  <2>3. Between'
    BY <1>1, <1>3, <2>1 DEF Between, DuringDrive, Configuring
  <2>4. Configured'
    BY <1>1, <2>1, Models DEF Configured
  <2>5. Elm327'
    BY <1>3, <2>1, Models DEF Elm327, Multiplexing
  <2>6. Handshake'
    <3>1. Multiplexing' = ObdMultiplexingEnabled /\ ~TakenBack
      BY <1>3, <2>1 DEF Multiplexing, TakenBack, Configuring
    <3> QED BY <1>1, <1>3, <2>1, <3>1 DEF Handshake, Wanted, Running
  <2> QED BY <1>2, <2>2, <2>3, <2>4, <2>5, <2>6
<1>6. CASE FetchCarParams
  <2>1. /\ pandad = "fetch" /\ pandad' \in {"set", "poll"}
        /\ pandad' = "set" => ControlsReady
        /\ UNCHANGED <<pandaStates, initialized, prev_obd, panda, restarts, ObdMultiplexingChanged>>
    BY <1>6 DEF FetchCarParams, PandadOnly, handshake
  <2>2. ~TakenBack /\ Multiplexing' = Multiplexing
    BY <2>1 DEF TakenBack, Configuring, Multiplexing
  <2> QED BY <1>1, <1>2, <2>1, <2>2 DEF DuringDrive, Between, Configured, Elm327, Configuring, Handshake, Wanted,
                                        Running
<1>7. CASE SetSafetyMode
  <2>1. /\ pandad = "set" /\ pandad' = "poll"
        /\ \/ panda' = CarModel(CarParams)
           \/ panda' = panda
        /\ UNCHANGED <<pandaStates, initialized, prev_obd, restarts, ObdMultiplexingChanged>>
    BY <1>7 DEF SetSafetyMode, PandadOnly, handshake
  <2>2. DuringDrive' /\ Configured' /\ Elm327'
    BY <1>1, <2>1, Models DEF DuringDrive, Configured, Elm327, Configuring
  <2>3. Between'
    BY <1>1, <1>3, <2>1 DEF Between, DuringDrive, Configuring
  <2>4. ~TakenBack /\ Multiplexing' = Multiplexing
    BY <2>1 DEF TakenBack, Configuring, Multiplexing
  <2> QED BY <1>1, <1>2, <2>1, <2>2, <2>3, <2>4 DEF Handshake, Wanted, Running
<1>8. CASE PandadExit
  <2>1. /\ pandad' = "down" /\ restarts' = restarts + 1
        /\ panda' \in {panda, NoOutput}
        /\ UNCHANGED <<pandaStates, initialized, prev_obd, ObdMultiplexingChanged>>
    BY <1>8 DEF PandadExit, device, handshake
  <2>2. restarts' # 0
    BY <2>1, <1>3
  <2> QED BY <1>1, <1>2, <2>1, <2>2, Models DEF DuringDrive, Between, Configured, Elm327, Configuring, Handshake
<1>9. CASE PandadStart
  <2>1. /\ pandad = "down" /\ pandad' = "poll" /\ initialized' = FALSE /\ panda' = Silent
        /\ UNCHANGED <<pandaStates, restarts>>
    BY <1>9 DEF PandadStart, device
  <2> QED BY <1>1, <1>2, <2>1, Models DEF DuringDrive, Between, Configured, Elm327, Configuring, Handshake
<1> QED BY <1>4, <1>5, <1>6, <1>7, <1>8, <1>9 DEF Pandad

\* The invariant holds initially, and through every step.
LEMMA DriveInitially == DriveInit => DriveTypeOK /\ Counted /\ PromptInv
<1> SUFFICES ASSUME DriveInit PROVE DriveTypeOK /\ Counted /\ PromptInv
  OBVIOUS
<1>1. Silent \in SafetyModels
  BY DEF SafetyModels
<1>2. DriveTypeOK
  <2>1. /\ 0 \in 0..MaxDrives /\ 0 \in 0..MaxRequests /\ 0 \in 0..MaxRestarts
        /\ [ignition |-> FALSE, new |-> FALSE] \in [ignition : BOOLEAN, new : BOOLEAN]
    BY DriveCycleAssumption
  <2> QED BY <1>1, <2>1 DEF DriveInit, DriveTypeOK, Instances
<1>3. Counted
  BY DEF DriveInit, Counted, Wanted
<1>4. PromptInv
  BY Models DEF DriveInit, PromptInv, StoppedFirst, Written, DuringDrive, Between, Configured, Elm327, Handshake,
                Wanted, Running, Multiplexing, TakenBack, Configuring
<1> QED BY <1>2, <1>3, <1>4

\* In every reachable state; what needs a prompt manager is conditional on it.
THEOREM DriveInvariant == DriveSpec => []DriveInv
<1>1. DriveInit => DriveInv
  BY DriveInitially DEF DriveInv
<1>2. ASSUME DriveInv, [DriveNext]_driveVars PROVE DriveInv'
  <2>1. CASE DriveNext
    <3>1. DriveTypeOK' /\ Counted'
      BY <1>2, <2>1, DriveTypes DEF DriveInv
    <3>2. Prompt => PromptInv'
      BY <1>2, <2>1, HardwaredKeeps, ManagerKeeps, CardKeeps, PandadKeeps DEF DriveInv, DriveNext
    <3> QED BY <3>1, <3>2 DEF DriveInv
  <2>2. CASE UNCHANGED driveVars
    BY <1>2, <2>2 DEF driveVars, device, managerVars, handshake, cardProcess, cardVars, pandadVars, DriveInv, DriveTypeOK,
         Counted, PromptInv, StoppedFirst, Written, DuringDrive, Between, Configured, Elm327, Handshake, Wanted, Running,
         Multiplexing, TakenBack, Configuring
  <2> QED BY <1>2, <2>1, <2>2
<1> QED BY <1>1, <1>2, PTL DEF DriveSpec

\* Types, whether or not the manager is prompt; instance is the interesting one: no more
\* cards than drives are ever started.
THEOREM DriveTypeCorrect == DriveSpec => []DriveTypeOK
<1>1. DriveInv => DriveTypeOK
  BY DEF DriveInv
<1> QED BY <1>1, DriveInvariant, PTL

\* While card runs, a car's safety model on the panda is the one of this card, for any
\* number of drives, requests and restarts of pandad.
THEOREM SafetyModelTheorem == ASSUME Prompt PROVE DriveSpec => []SafetyModelOfThisCard
<1>1. DriveInv => SafetyModelOfThisCard
  BY DEF DriveInv, PromptInv, Configured, Written, SafetyModelOfThisCard
<1> QED BY <1>1, DriveInvariant, PTL

\* What card asked for is what the panda multiplexes, when it goes on with its queries.
THEOREM QueriesTheorem == ASSUME Prompt PROVE DriveSpec => []QueriesMultiplexed
<1>1. DriveInv => QueriesMultiplexed
  BY DEF DriveInv, DriveTypeOK, PromptInv, Handshake, Elm327, QueriesMultiplexed, CardAt, Running, TakenBack,
         Multiplexing
<1> QED BY <1>1, DriveInvariant, PTL
===============================================================================

------------------------------- MODULE Updater -------------------------------
(***************************************************************************)
(* The update of the software on the device: updated                       *)
(* (system/updated/updated.py) prepares a finalized copy while the device  *)
(* is parked, launch_chffrplus.sh swaps it in at boot and brings the       *)
(* operating system (AGNOS) to the version the new copy asks for.  Either  *)
(* may be cut off at any point: a drive interrupts updated, and the power  *)
(* may fail, which loses what was not yet synced to the disk.              *)
(***************************************************************************)
EXTENDS Naturals

CONSTANTS
  MaxVersion,   \* bound: versions published on the target branch
  MaxCrashes,   \* bound: power failures
  Systems, Os,  \* AGNOS versions; the one each version of openpilot asks for
  Absent, Partial

Versions == 1..MaxVersion

ASSUME UpdaterAssumption ==
  /\ MaxVersion \in Nat \ {0} /\ MaxCrashes \in Nat
  /\ Os \in [Versions -> Systems]
  /\ Absent \notin Versions \cup Systems /\ Partial \notin Versions \cup Systems /\ Absent # Partial

VARIABLES
  remote,                 \* the version the server has
  base, old, finalized,   \* BASEDIR; old_openpilot and finalized of the staging area
  consistent, overlayInit,\* finalized/.overlay_consistent, BASEDIR/.overlay_init
  gitNewer,               \* something in BASEDIR/.git is newer than .overlay_init
  synced,                 \* finalized and the two markers as they are on the disk
  merged,                 \* what the mounted overlay shows; Absent: not mounted
  system, slot,           \* the running AGNOS; what verifies in the other slot
  UpdateAvailable,        \* parameter
  boot,                   \* the launcher: "launch", "swap", "agnos", "activate", "up" or "gone"
  updated, known, first,  \* the updater: where it is, the branches it knows, its first round
  calm, crashes           \* no more disturbances; power failures so far

files == <<base, old, finalized, consistent, overlayInit, gitNewer, synced>>
agnos == <<system, slot>>
process == <<updated, known, first>>
environment == <<remote, calm, crashes>>
vars == <<environment, files, merged, agnos, UpdateAvailable, boot, process>>

Trees == Versions \cup {Absent, Partial}
Marks == [finalized : Trees, consistent : BOOLEAN, overlayInit : BOOLEAN]
Steps == {"off", "start", "overlay", "staging", "params", "check", "fetch", "checkout", "agnos",
          "flash", "finalize", "copy", "mark", "failed", "report", "sleep"}

TypeOK ==
  /\ remote \in Versions /\ calm \in BOOLEAN /\ crashes \in 0..MaxCrashes
  /\ base \in Versions \cup {Absent} /\ old \in Trees /\ finalized \in Trees
  /\ consistent \in BOOLEAN /\ overlayInit \in BOOLEAN /\ gitNewer \in BOOLEAN
  /\ synced \in Marks
  /\ merged \in Trees
  /\ system \in Systems /\ slot \in Systems \cup {Partial}
  /\ UpdateAvailable \in BOOLEAN
  /\ boot \in {"launch", "swap", "agnos", "activate", "up", "gone"}
  /\ updated \in Steps /\ known \in Versions \cup {Absent} /\ first \in BOOLEAN

Init ==
  /\ remote = 1 /\ calm = FALSE /\ crashes = 0
  /\ base = 1 /\ old = Absent /\ finalized = Absent
  /\ consistent = FALSE /\ overlayInit = FALSE /\ gitNewer = FALSE
  /\ synced = [finalized |-> Absent, consistent |-> FALSE, overlayInit |-> FALSE]
  /\ merged = Absent
  /\ system = Os[1] /\ slot = Partial
  /\ UpdateAvailable = FALSE /\ boot = "launch"
  /\ updated = "off" /\ known = Absent /\ first = TRUE

(***************************************************************************)
(* The disk.  set_consistent_flag syncs before and after it changes the    *)
(* flag, so a power failure inside it leaves one of its two ends.          *)
(***************************************************************************)
Marked(tree, flag, init) == [finalized |-> tree, consistent |-> flag, overlayInit |-> init]

\* Mutant: the flag is changed without a sync.
MutSetConsistentFlag(flag) == consistent' = flag /\ synced' = synced

set_consistent_flag(flag) ==
  /\ consistent' = flag
  /\ synced' = Marked(finalized, flag, overlayInit)

\* What was not synced may be on the disk or not, each file by itself, and a
\* copy may be there in part.  The renames of the launcher are in order.
PowerFailure ==
  /\ ~calm /\ crashes < MaxCrashes /\ crashes' = crashes + 1
  /\ finalized' \in (IF finalized = synced.finalized THEN {finalized}
                                                   ELSE {finalized, synced.finalized, Partial})
  /\ consistent' \in {consistent, synced.consistent}
  /\ overlayInit' \in {overlayInit, synced.overlayInit}
  /\ synced' = Marked(finalized', consistent', overlayInit')
  /\ merged' = Absent /\ updated' = "off"
  /\ boot' = IF base = Absent THEN "gone" ELSE "launch"
  /\ UNCHANGED <<remote, calm, base, old, gitNewer, agnos, UpdateAvailable, known, first>>

\* DoReboot, or the device is switched off and on again; in calm times only
\* to install an update.
Reboot ==
  /\ boot = "up" /\ boot' = "launch"
  /\ calm => UpdateAvailable /\ updated = "sleep"
  /\ merged' = Absent /\ updated' = "off"
  /\ synced' = Marked(finalized, consistent, overlayInit)
  /\ UNCHANGED <<environment, base, old, finalized, consistent, overlayInit, gitNewer, agnos,
                 UpdateAvailable, known, first>>

Publish == /\ ~calm /\ remote < MaxVersion /\ remote' = remote + 1
           /\ UNCHANGED <<calm, crashes, files, merged, agnos, UpdateAvailable, boot, process>>

\* Local development: BASEDIR's repository is touched.
TouchGit == /\ ~calm /\ boot = "up" /\ ~gitNewer /\ gitNewer' = TRUE
            /\ UNCHANGED <<environment, base, old, finalized, consistent, overlayInit, synced, merged,
                           agnos, UpdateAvailable, boot, process>>

\* From here on the server is reachable, nothing fails and nobody drives.
Settle == /\ ~calm /\ calm' = TRUE
          /\ UNCHANGED <<remote, crashes, files, merged, agnos, UpdateAvailable, boot, process>>

(***************************************************************************)
(* launch and agnos_init.                                                  *)
(***************************************************************************)
\* Mutant: the finalized copy is enough.
MutUpdateFound == overlayInit /\ ~gitNewer /\ finalized # Absent /\ old = Absent

UpdateFound == overlayInit /\ ~gitNewer /\ consistent /\ old = Absent

MoveBaseAway ==
  /\ boot = "launch" /\ UpdateFound
  /\ old' = base /\ base' = Absent /\ boot' = "swap"
  /\ UNCHANGED <<environment, finalized, consistent, overlayInit, gitNewer, synced, merged, agnos,
                 UpdateAvailable, process>>

\* The new BASEDIR has no .overlay_init: git clean removed it from the overlay.
MoveFinalizedIn ==
  /\ boot = "swap" /\ boot' = "launch"
  /\ base' = finalized /\ finalized' = Absent
  /\ consistent' = FALSE /\ overlayInit' = FALSE /\ gitNewer' = FALSE
  /\ synced' = Marked(Absent, FALSE, FALSE)
  /\ UNCHANGED <<environment, old, merged, agnos, UpdateAvailable, process>>

NeedsAgnos ==
  /\ boot = "launch" /\ ~UpdateFound /\ system # Os[base]
  /\ boot' = "agnos"
  /\ UNCHANGED <<environment, files, merged, agnos, UpdateAvailable, process>>

\* Nothing to install: the manager starts, which clears UpdateAvailable.
StartManager ==
  /\ boot = "launch" /\ ~UpdateFound /\ system = Os[base]
  /\ boot' = "up" /\ UpdateAvailable' = FALSE
  /\ UNCHANGED <<environment, files, merged, agnos, process>>

\* agnos.py --verify: swap clears the hashes of the slot before it makes it
\* active, so that a power failure in between leaves a slot that fails.
VerifyAndSwap ==
  /\ boot = "agnos" /\ slot = Os[base]
  /\ boot' = "activate" /\ slot' = Partial
  /\ UNCHANGED <<environment, files, merged, system, UpdateAvailable, process>>

\* Mutant: a swap that failed is not tried again.
MutSetActive ==
  /\ boot = "activate" /\ boot' = "launch"
  /\ UNCHANGED <<environment, files, merged, system, slot, UpdateAvailable, process>>

SetActive ==
  /\ boot = "activate" /\ boot' = "launch"
  /\ system' = Os[base]
  /\ UNCHANGED <<environment, files, merged, slot, UpdateAvailable, process>>

\* The slot does not verify: the updater with a screen flashes it.
FlashAtBoot ==
  /\ boot = "agnos" /\ slot # Os[base]
  /\ slot' = Os[base]
  /\ UNCHANGED <<environment, files, merged, system, UpdateAvailable, boot, process>>

\* Without a BASEDIR there is no launcher to run.
NothingToLaunch == boot = "gone" /\ UNCHANGED vars

(***************************************************************************)
(* updated.  A step that fails raises; main then removes .overlay_init.    *)
(***************************************************************************)
At(here) == boot = "up" /\ updated = here
Goto(there) == updated' = there /\ UNCHANGED <<known, first>>
Fails(here) == ~calm /\ At(here) /\ Goto("failed")
Elsewhere == UNCHANGED <<environment, boot>>

Begin == /\ At("off") /\ updated' = "start" /\ known' = Absent /\ first' = TRUE
         /\ UNCHANGED <<files, merged, agnos, UpdateAvailable>> /\ Elsewhere

\* When a drive begins the manager clears UpdateAvailable and stops updated
\* wherever it is, which may have set the parameter again in between.
Interrupt ==
  /\ ~calm /\ boot = "up" /\ updated # "off" /\ Goto("off")
  /\ UpdateAvailable' \in {FALSE, UpdateAvailable}
  /\ UNCHANGED <<files, merged, agnos>> /\ Elsewhere

\* Invalidates what an earlier updated has finalized.
Invalidate ==
  /\ At("start") /\ Goto("overlay")
  /\ set_consistent_flag(FALSE)
  /\ UNCHANGED <<base, old, finalized, overlayInit, gitNewer, merged, agnos, UpdateAvailable>> /\ Elsewhere

OverlayValid == overlayInit /\ merged # Absent /\ ~gitNewer

KeepOverlay == /\ At("overlay") /\ OverlayValid /\ Goto("params")
               /\ UNCHANGED <<files, merged, agnos, UpdateAvailable>> /\ Elsewhere

\* init_overlay empties the staging area, the backup of the last swap too ...
ClearStaging ==
  /\ At("overlay") /\ ~OverlayValid /\ Goto("staging")
  /\ UpdateAvailable' = FALSE
  /\ set_consistent_flag(FALSE)
  /\ finalized' = (IF finalized = Absent THEN Absent ELSE Partial)
  /\ old' = (IF old = Absent THEN Absent ELSE Partial)
  /\ merged' = Absent
  /\ UNCHANGED <<base, overlayInit, gitNewer, agnos>> /\ Elsewhere

\* Mutant: the backup survives.
MutMountOverlay ==
  /\ At("staging") /\ Goto("params")
  /\ finalized' = Absent /\ overlayInit' = TRUE /\ gitNewer' = FALSE
  /\ synced' = Marked(Absent, consistent, TRUE) /\ merged' = base
  /\ UNCHANGED <<base, old, consistent, agnos, UpdateAvailable>> /\ Elsewhere

\* ... marks BASEDIR, syncs, and mounts the overlay over it.
MountOverlay ==
  /\ At("staging") /\ Goto("params")
  /\ old' = Absent /\ finalized' = Absent /\ overlayInit' = TRUE /\ gitNewer' = FALSE
  /\ synced' = Marked(Absent, consistent, TRUE) /\ merged' = base
  /\ UNCHANGED <<base, consistent, agnos, UpdateAvailable>> /\ Elsewhere

update_ready == consistent /\ base # known

\* set_params at the start of a round; the first round only sleeps.
StartRound ==
  /\ At("params") /\ first' = FALSE /\ UNCHANGED known
  /\ updated' = IF first THEN "sleep" ELSE "check"
  /\ UpdateAvailable' = update_ready
  /\ UNCHANGED <<files, merged, agnos>> /\ Elsewhere

CheckForUpdate ==
  /\ At("check") /\ updated' = "fetch" /\ known' = remote /\ UNCHANGED first
  /\ UNCHANGED <<files, merged, agnos, UpdateAvailable>> /\ Elsewhere

\* A metered connection, or a user who only wants to check.
SkipFetch == /\ ~calm /\ At("fetch") /\ Goto("report")
             /\ UNCHANGED <<files, merged, agnos, UpdateAvailable>> /\ Elsewhere

\* Mutant: a git command that failed does not raise.
MutFetchUpdate ==
  /\ At("fetch") /\ Goto("finalize")
  /\ set_consistent_flag(FALSE) /\ UpdateAvailable' = FALSE
  /\ merged' = Partial
  /\ UNCHANGED <<base, old, finalized, overlayInit, gitNewer, agnos>> /\ Elsewhere

FetchUpdate ==
  /\ At("fetch") /\ Goto("checkout")
  /\ set_consistent_flag(FALSE) /\ UpdateAvailable' = FALSE
  /\ merged' = Partial
  /\ UNCHANGED <<base, old, finalized, overlayInit, gitNewer, agnos>> /\ Elsewhere

Checkout ==
  /\ At("checkout") /\ Goto("agnos") /\ merged' = remote
  /\ UNCHANGED <<files, agnos, UpdateAvailable>> /\ Elsewhere

SameAgnos == /\ At("agnos") /\ Os[merged] = system /\ Goto("finalize")
             /\ UNCHANGED <<files, merged, agnos, UpdateAvailable>> /\ Elsewhere

\* handle_agnos_update writes over the other slot ...
BeginFlash ==
  /\ At("agnos") /\ Os[merged] # system /\ Goto("flash")
  /\ set_consistent_flag(FALSE) /\ slot' = Partial
  /\ UNCHANGED <<base, old, finalized, overlayInit, gitNewer, merged, system, UpdateAvailable>> /\ Elsewhere

\* ... and its hashes are written last.
EndFlash ==
  /\ At("flash") /\ Goto("finalize") /\ slot' = Os[merged]
  /\ UNCHANGED <<files, merged, system, UpdateAvailable>> /\ Elsewhere

\* finalize_update: remove the old copy, copy, reset, mark.
BeginCopy ==
  /\ At("finalize") /\ Goto("copy")
  /\ set_consistent_flag(FALSE)
  /\ finalized' = Partial
  /\ UNCHANGED <<base, old, overlayInit, gitNewer, merged, agnos, UpdateAvailable>> /\ Elsewhere

EndCopy ==
  /\ At("copy") /\ Goto("mark") /\ finalized' = merged
  /\ UNCHANGED <<base, old, consistent, overlayInit, gitNewer, synced, merged, agnos, UpdateAvailable>> /\ Elsewhere

MarkConsistent ==
  /\ At("mark") /\ Goto("report")
  /\ set_consistent_flag(TRUE)
  /\ UNCHANGED <<base, old, finalized, overlayInit, gitNewer, merged, agnos, UpdateAvailable>> /\ Elsewhere

Fail == /\ \E here \in {"overlay", "staging", "check", "checkout", "flash", "copy"} : Fails(here)
        /\ UNCHANGED <<files, merged, agnos, UpdateAvailable>> /\ Elsewhere

RemoveOverlayInit ==
  /\ At("failed") /\ Goto("report") /\ overlayInit' = FALSE
  /\ UNCHANGED <<base, old, finalized, consistent, gitNewer, synced, merged, agnos, UpdateAvailable>> /\ Elsewhere

Report ==
  /\ At("report") /\ Goto("sleep") /\ UpdateAvailable' = update_ready
  /\ UNCHANGED <<files, merged, agnos>> /\ Elsewhere

NextRound == /\ At("sleep") /\ Goto("overlay")
             /\ UNCHANGED <<files, merged, agnos, UpdateAvailable>> /\ Elsewhere

Launcher == \/ MoveBaseAway \/ MoveFinalizedIn \/ NeedsAgnos \/ StartManager
            \/ VerifyAndSwap \/ SetActive \/ FlashAtBoot
Updated == \/ Begin \/ Invalidate \/ KeepOverlay \/ ClearStaging \/ MountOverlay \/ StartRound
           \/ CheckForUpdate \/ FetchUpdate \/ Checkout \/ SameAgnos \/ BeginFlash \/ EndFlash
           \/ BeginCopy \/ EndCopy \/ MarkConsistent \/ RemoveOverlayInit \/ Report \/ NextRound

Next == \/ Launcher \/ Updated \/ Interrupt \/ SkipFetch \/ Fail
        \/ NothingToLaunch \/ Reboot \/ PowerFailure \/ Publish \/ TouchGit \/ Settle

\* The processes run; somebody reboots a device that again and again says
\* that an update is ready.
RebootForUpdate == Reboot /\ UpdateAvailable /\ updated = "sleep"
Fairness == WF_vars(Launcher) /\ WF_vars(Updated) /\ SF_vars(RebootForUpdate)

Spec == Init /\ [][Next]_vars /\ Fairness

(***************************************************************************)
(* Properties.                                                             *)
(***************************************************************************)
\* Whatever was cut off, a finalized copy marked consistent is complete, and
\* the AGNOS it asks for runs or is complete in the other slot: the launcher
\* can take the marker at its word.
ConsistentIsComplete ==
  consistent => /\ finalized \in Versions
                /\ system = Os[finalized] \/ slot = Os[finalized]

\* There is always a complete openpilot on the disk: BASEDIR, or between the
\* two renames both the backup and the copy that was to replace it.
NothingLost ==
  base = Absent => old \in Versions /\ finalized \in Versions /\ boot \in {"swap", "gone"}

\* When updated rests and says that an update is available, the finalized
\* copy is there and no backup of an earlier swap stops the launcher from
\* installing it, in whatever state the last boot had found the staging area.
AvailableIsInstallable ==
  UpdateAvailable /\ At("sleep") => consistent /\ old = Absent

\* Once nothing is disturbed any more, the device gets the published version,
\* whatever state interruptions and power failures had left, except for one
\* between the two renames.
Installs == calm ~> (base = remote \/ boot = "gone")
===============================================================================

------------------------------ MODULE LogStorage ------------------------------
(***************************************************************************)
(* The drive logs on the disk and the three processes that share them with *)
(* no other coordination than lock files and extended attributes: loggerd  *)
(* (system/loggerd/loggerd.cc, logger.cc) writes segments and rotates,     *)
(* uploader.py uploads what is not locked and tags it, deleter.py removes  *)
(* old segments when the disk is full, the bookmarked ones last.           *)
(* The boot and crash directories are left out: they come last in the      *)
(* deleter's order and first in the uploader's.                            *)
(***************************************************************************)
EXTENDS Integers, FiniteSets

CONSTANTS
  MaxRoutes,            \* bound: the routes; the first has as many segments, each later one less
  MaxFailures,          \* bound: power failures and crashes of loggerd
  PRESERVE_COUNT,       \* bookmarked segments that the deleter spares
  Prompt,               \* the uploader has cleared the locks before loggerd starts
  None

ASSUME LogStorageAssumption ==
  /\ MaxRoutes \in Nat \ {0} /\ MaxFailures \in Nat
  /\ PRESERVE_COUNT \in Nat \ {0} /\ Prompt \in BOOLEAN
  /\ None \notin Nat \X Nat

\* A segment is a route and its number; both grow, which is the order of creation.
Segments == {s \in (1..MaxRoutes) \X (0..MaxRoutes - 1) : s[1] + s[2] <= MaxRoutes}
Kinds == {"qlog", "qcamera"}
Before(s, t) == s[1] < t[1] \/ (s[1] = t[1] /\ s[2] < t[2])

VARIABLES
  files,              \* the files on the disk, <<segment, kind>>
  locks,              \* segments with a rlog.lock
  preserve,           \* segments with the attribute user.preserve
  uploaded,           \* files with the attribute user.upload
  route, phase,       \* loggerd: RouteCount, and what it does
  current, video,     \* the segments that the logs and the video writer are in
  uploader, uploading,\* "clear", "idle" or "busy"; the file in hand
  cached, cachedYes,  \* the deleter's attribute cache: what it has read, where it found the mark
  listed, spared,     \* its pass: directories, the ones to delete last
  failures, crashed   \* bound; history: segments locked by a loggerd that died since the boot

disk == <<files, locks, preserve, uploaded>>
loggerd == <<route, phase, current, video>>
upload == <<uploader, uploading>>
deleter == <<cached, cachedYes, listed, spared>>
rest == <<failures, crashed>>
vars == <<disk, loggerd, upload, deleter, rest>>

AllFiles == Segments \X Kinds
dirs == {f[1] : f \in files}

TypeOK ==
  /\ files \subseteq AllFiles /\ uploaded \subseteq AllFiles
  /\ locks \subseteq dirs /\ preserve \subseteq Segments
  /\ route \in 0..MaxRoutes /\ phase \in {"off", "writing", "unlocked", "ending"}
  /\ current \in Segments \cup {None} /\ (current = None <=> phase = "off")
  /\ video \in Segments \cup {None}
  /\ uploader \in {"clear", "idle", "busy"} /\ uploading \in AllFiles \cup {None}
  /\ cachedYes \subseteq cached /\ cached \subseteq Segments
  /\ listed \subseteq Segments /\ spared \subseteq Segments
  /\ failures \in 0..MaxFailures /\ crashed \subseteq Segments

Init ==
  /\ files = {} /\ locks = {} /\ preserve = {} /\ uploaded = {}
  /\ route = 0 /\ phase = "off" /\ current = None /\ video = None
  /\ uploader = "clear" /\ uploading = None
  /\ cached = {} /\ cachedYes = {} /\ listed = {} /\ spared = {}
  /\ failures = 0 /\ crashed = {}

(***************************************************************************)
(* loggerd.                                                                *)
(***************************************************************************)
\* Mutant: the lock file is not created.
MutCreate(segment) ==
  /\ files' = files \cup {<<segment, "qlog">>}
  /\ current' = segment /\ phase' = "writing" /\ UNCHANGED locks

\* Creates the directory, its lock and the logs of a segment.
Create(segment) ==
  /\ files' = files \cup {<<segment, "qlog">>}
  /\ locks' = locks \cup {segment}
  /\ current' = segment /\ phase' = "writing"

Start ==
  /\ phase = "off" /\ route < MaxRoutes /\ (Prompt => uploader # "clear")
  /\ route' = route + 1 /\ video' = None
  /\ Create(<<route', 0>>)
  /\ UNCHANGED <<preserve, uploaded, upload, deleter, rest>>

\* next() removes the lock before it closes the old logs ...
Unlock ==
  /\ phase = "writing" /\ current[1] + current[2] < MaxRoutes
  /\ phase' = "unlocked" /\ locks' = locks \ {current}
  /\ UNCHANGED <<files, preserve, uploaded, route, current, video, upload, deleter, rest>>

\* ... by opening those of the next segment.
OpenNext ==
  /\ phase = "unlocked" /\ Create(<<current[1], current[2] + 1>>)
  /\ UNCHANGED <<preserve, uploaded, route, video, upload, deleter, rest>>

\* handle_encoder_msg: the first packet of the new segment closes the old video.
NextVideo ==
  /\ phase = "writing" /\ video # current
  /\ video' = current /\ files' = files \cup {<<current, "qcamera">>}
  /\ UNCHANGED <<locks, preserve, uploaded, route, phase, current, upload, deleter, rest>>

\* handle_preserve_segment, for a userBookmark or audioFeedback.
Bookmark ==
  /\ phase = "writing" /\ current \notin preserve
  /\ preserve' = preserve \cup {current}
  /\ UNCHANGED <<files, locks, uploaded, loggerd, upload, deleter, rest>>

\* The drive ends: ~LoggerState removes the lock, then the files are closed.
Exit ==
  /\ phase = "writing" /\ phase' = "ending" /\ locks' = locks \ {current}
  /\ UNCHANGED <<files, preserve, uploaded, route, current, video, upload, deleter, rest>>

End ==
  /\ phase = "ending" /\ phase' = "off" /\ current' = None /\ video' = None
  /\ UNCHANGED <<disk, route, upload, deleter, rest>>

\* loggerd dies and leaves its lock.
Crash ==
  /\ phase # "off" /\ failures < MaxFailures /\ failures' = failures + 1
  /\ crashed' = crashed \cup (locks \cap {current})
  /\ phase' = "off" /\ current' = None /\ video' = None
  /\ UNCHANGED <<disk, route, upload, deleter>>

(***************************************************************************)
(* The uploader.                                                           *)
(***************************************************************************)
\* Mutant: the uploader does not clear the locks of the last boot.
MutClearLocks ==
  /\ uploader = "clear" /\ uploader' = "idle"
  /\ UNCHANGED <<disk, loggerd, uploading, deleter, rest>>

\* clear_locks: whatever was locked when the process starts is stale.
ClearLocks ==
  /\ uploader = "clear" /\ uploader' = "idle" /\ locks' = {}
  /\ UNCHANGED <<files, preserve, uploaded, loggerd, uploading, deleter, rest>>

\* list_upload_files; on a metered network the logs, and the videos of requested routes.
Uploadable(metered, requested) ==
  {f \in files : /\ f[1] \notin locks /\ f \notin uploaded
                 /\ metered => f[2] = "qlog" \/ f[1][1] \in requested}
Sooner(f, g) == Before(f[1], g[1]) \/ (f[1] = g[1] /\ f[2] = "qlog" /\ g[2] # "qlog")

\* A bookmark requests its route, and so does the server (setRouteViewed).
Pick(metered, requested) ==
  LET candidates == Uploadable(metered, requested) IN
  /\ uploader = "idle" /\ uploader' = "busy"
  /\ uploading' \in {f \in candidates : \A g \in candidates \ {f} : Sooner(f, g)}
  /\ UNCHANGED <<disk, loggerd, deleter, rest>>

Uploaded ==
  /\ uploader = "busy" /\ uploading \in files
  /\ uploaded' = uploaded \cup {uploading}
  /\ uploader' = "idle" /\ uploading' = None
  /\ UNCHANGED <<files, locks, preserve, loggerd, deleter, rest>>

\* The network fails, or the deleter was faster.
UploadFails ==
  /\ uploader = "busy" /\ uploader' = "idle" /\ uploading' = None
  /\ UNCHANGED <<disk, loggerd, deleter, rest>>

(***************************************************************************)
(* The deleter.                                                            *)
(***************************************************************************)
Newer(s, marks) == Cardinality({m \in marks : Before(s, m)})

\* get_preserved_segments: the latest bookmarked segments and the two before each.
Preserved(marks) ==
  {s \in Segments : \E m \in marks : /\ Newer(m, marks) < PRESERVE_COUNT
                                     /\ s[1] = m[1] /\ s[2] \in m[2] - 2 .. m[2]}

\* getxattr answers from its cache what it has read before.
Marked == {s \in dirs : IF s \in cached THEN s \in cachedYes ELSE s \in preserve}

\* The disk is full.  The marks are read from the latest segment backwards,
\* until one more than PRESERVE_COUNT is found.
Scan ==
  /\ listed = {} /\ dirs # {}
  /\ cached' = cached \cup {s \in dirs : Newer(s, Marked) <= PRESERVE_COUNT}
  /\ cachedYes' = cachedYes \cup (Marked \cap cached')
  /\ listed' = dirs /\ spared' = Preserved(Marked)
  /\ UNCHANGED <<disk, loggerd, upload, rest>>

\* Mutant: the deleter does not look at the locks.
MutVictims == {s \in listed : \A t \in listed : t = s \/ s \notin spared \/ t \in spared}

\* The order of deletion: the oldest first, the spared ones last.
Earlier(s, t) == IF (s \in spared) = (t \in spared) THEN Before(s, t) ELSE t \in spared
Victims == {s \in listed \ locks : \A t \in listed \ locks : t = s \/ Earlier(s, t)}

\* What is known of the directory is forgotten: its name never comes back.
Delete ==
  /\ \E s \in Victims : /\ files' = {f \in files : f[1] # s}
                        /\ uploaded' = {f \in uploaded : f[1] # s}
                        /\ preserve' = preserve \ {s} /\ crashed' = crashed \ {s}
                        /\ cached' = cached \ {s} /\ cachedYes' = cachedYes \ {s}
  /\ listed' = {} /\ spared' = {}
  /\ UNCHANGED <<locks, loggerd, upload, failures>>

\* rmtree raises: the next one is tried.
DeleteFails ==
  /\ \E s \in Victims : listed' = listed \ {s}
  /\ UNCHANGED <<disk, loggerd, upload, cached, cachedYes, spared, rest>>

\* Everything left is locked.
GiveUp ==
  /\ listed # {} /\ Victims = {} /\ listed' = {} /\ spared' = {}
  /\ UNCHANGED <<disk, loggerd, upload, cached, cachedYes, rest>>

-------------------------------------------------------------------------------
\* The device loses its power, or is rebooted.
PowerFailure ==
  /\ failures < MaxFailures /\ failures' = failures + 1
  /\ phase' = "off" /\ current' = None /\ video' = None
  /\ uploader' = "clear" /\ uploading' = None
  /\ cached' = {} /\ cachedYes' = {} /\ listed' = {} /\ spared' = {} /\ crashed' = {}
  /\ UNCHANGED <<disk, route>>

Logger == Start \/ Unlock \/ OpenNext \/ NextVideo \/ Bookmark \/ Exit \/ End \/ Crash
Uploader == \/ ClearLocks \/ Uploaded \/ UploadFails
            \/ \E metered \in BOOLEAN, requested \in SUBSET (1..MaxRoutes) : Pick(metered, requested)
Deleter == Scan \/ Delete \/ DeleteFails \/ GiveUp
Next == Logger \/ Uploader \/ Deleter \/ PowerFailure

\* The uploader runs, the network is unmetered again and again, and an upload
\* that is tried again and again succeeds.
Fairness ==
  /\ WF_vars(ClearLocks) /\ WF_vars(UploadFails /\ uploading \notin files)
  /\ SF_vars(Pick(FALSE, {})) /\ SF_vars(Uploaded)
Spec == Init /\ [][Next]_vars /\ Fairness

(***************************************************************************)
(* Properties.                                                             *)
(***************************************************************************)
\* The deleter never takes the directory loggerd is writing to, however full
\* the disk is and whatever the uploader clears.
ActiveIsKept == phase = "writing" => current \in dirs

\* Every file of a segment that loggerd has left is in the end uploaded or
\* deleted, also after a power failure with the lock in place; not so if loggerd
\* alone died, until the next boot.
Pending(s) == \E f \in files \ uploaded : f[1] = s
LogsAreServed ==
  \A s \in Segments : Pending(s) /\ s # current ~> ~Pending(s) \/ s \in crashed

\* deleter.py: "skip deleting most recent N preserved segments": a pass of the
\* deleter spares each of them that was bookmarked before the pass began.
PreservedAreSpared ==
  [][listed = {} /\ listed' # {} => dirs \cap Preserved(preserve) \subseteq spared']_vars
===============================================================================

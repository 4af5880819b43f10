--------------------------- MODULE LogStorageProofs ---------------------------
(***************************************************************************)
(* What leaves the device.  In the log storage the lock file protects the  *)
(* segment that is written, for any number of routes and failures, when    *)
(* the uploader clears stale locks before loggerd starts.  In athenad's    *)
(* queue every accepted upload is in one place, and no upload begins once  *)
(* it was cancelled, for any number of threads, requests and restarts.     *)
(***************************************************************************)
EXTENDS LogStorage, AthenadUploads, FiniteSetTheorems, TLAPS

\* The uploader's clearing is over while loggerd runs, so the lock stays.
Locked ==
  /\ uploader = "clear" => phase = "off"
  /\ phase = "writing" => current \in locks /\ <<current, "qlog">> \in files

\* No loggerd runs in the initial state.
LEMMA InitLocked == Init => Locked
BY DEF Init, Locked

\* A victim of the deleter carries no lock.
LEMMA VictimsAreUnlocked == \A s \in Victims : s \notin locks
BY DEF Victims

\* Each process keeps the lock and the logs of the segment that is written.
LEMMA NextLocked == ASSUME Prompt, Locked, [Next]_vars PROVE Locked'
<1>. USE DEF Locked
<1>1. CASE Logger
  <2>1. CASE Start  BY <2>1 DEF Start, Create, upload
  <2>2. CASE Unlock  BY <2>2 DEF Unlock, upload
  <2>3. CASE OpenNext
    BY <2>3 DEF OpenNext, Create, upload
  <2>4. CASE NextVideo  BY <2>4 DEF NextVideo, upload
  <2>5. CASE Bookmark  BY <2>5 DEF Bookmark, upload, loggerd
  <2>6. CASE Exit  BY <2>6 DEF Exit, upload
  <2>7. CASE End  BY <2>7 DEF End, upload
  <2>8. CASE Crash  BY <2>8 DEF Crash
  <2>. QED  BY <1>1, <2>1, <2>2, <2>3, <2>4, <2>5, <2>6, <2>7, <2>8 DEF Logger
<1>2. CASE Uploader
  <2>1. CASE ClearLocks  BY <2>1 DEF ClearLocks, loggerd
  <2>2. CASE Uploaded  BY <2>2 DEF Uploaded, loggerd
  <2>3. CASE UploadFails  BY <2>3 DEF UploadFails, loggerd, disk
  <2>4. ASSUME NEW metered \in BOOLEAN, NEW requested \in SUBSET (1..MaxRoutes), Pick(metered, requested)
        PROVE  Locked'
    BY <2>4 DEF Pick, loggerd, disk
  <2>. QED  BY <1>2, <2>1, <2>2, <2>3, <2>4 DEF Uploader
<1>3. CASE Deleter
  <2>1. CASE Scan  BY <2>1 DEF Scan, disk, loggerd, upload
  <2>2. CASE Delete
    <3>1. PICK s \in Victims : files' = {f \in files : f[1] # s}  BY <2>2 DEF Delete
    <3>2. UNCHANGED <<locks, phase, current, uploader>>  BY <2>2 DEF Delete, loggerd, upload
    <3>3. ASSUME phase = "writing" PROVE <<current, "qlog">> \in files'
      <4>1. current # s  BY <3>1, <3>3, VictimsAreUnlocked
      <4>. QED  BY <3>1, <3>3, <4>1
    <3>. QED  BY <3>2, <3>3
  <2>3. CASE DeleteFails  BY <2>3 DEF DeleteFails, disk, loggerd, upload
  <2>4. CASE GiveUp  BY <2>4 DEF GiveUp, disk, loggerd, upload
  <2>. QED  BY <1>3, <2>1, <2>2, <2>3, <2>4 DEF Deleter
<1>4. CASE PowerFailure  BY <1>4 DEF PowerFailure
<1>5. CASE UNCHANGED vars  BY <1>5 DEF vars, disk, loggerd, upload
<1>. QED  BY <1>1, <1>2, <1>3, <1>4, <1>5 DEF Next

\* The locked segment keeps its directory.
LEMMA LockedKeeps == Locked => ActiveIsKept
<1>. SUFFICES ASSUME Locked, phase = "writing" PROVE current \in dirs
  BY DEF ActiveIsKept
<1>1. <<current, "qlog">> \in files /\ <<current, "qlog">>[1] = current  BY DEF Locked
<1>. QED  BY <1>1 DEF dirs

\* The directory that loggerd writes is never deleted (deleter.py passes over
\* locked directories), if the locks are cleared before loggerd starts.
THEOREM ActiveTheorem == ASSUME Prompt PROVE Spec => []ActiveIsKept
<1>1. Init => Locked  BY InitLocked
<1>2. Locked /\ [Next]_vars => Locked'  BY NextLocked
<1>3. Locked => ActiveIsKept  BY LockedKeeps
<1>. QED  BY <1>1, <1>2, <1>3, PTL DEF Spec

(***************************************************************************)
(* The types: what is listed, cached or uploaded was once a file, and only *)
(* a segment with a directory is locked.                                   *)
(***************************************************************************)
\* next() only unlocks a segment that has a successor.
LTyped == TypeOK /\ (phase = "unlocked" => current[1] + current[2] < MaxRoutes)

LEMMA SegmentPairs ==
  /\ MaxRoutes \in Nat \ {0} /\ None \notin Segments
  /\ \A s \in Segments : s = <<s[1], s[2]>> /\ s[1] \in 1..MaxRoutes /\ s[2] \in Nat
  /\ \A r \in 1..MaxRoutes : <<r, 0>> \in Segments
  /\ \A s \in Segments : s[1] + s[2] < MaxRoutes => <<s[1], s[2] + 1>> \in Segments
<1>1. MaxRoutes \in Nat \ {0} /\ None \notin Nat \X Nat
  BY LogStorageAssumption DEF LogStorageAssumption
<1>2. Segments \subseteq Nat \X Nat BY <1>1 DEF Segments
<1> QED BY <1>1, <1>2 DEF Segments

LEMMA DirsAreSegments == files \subseteq AllFiles => dirs \subseteq Segments
BY DEF AllFiles, dirs

\* A file that a segment gets makes its directory, and takes none away.
LEMMA NewFile ==
  ASSUME files \subseteq AllFiles, NEW s \in Segments, NEW k \in Kinds, files' = files \cup {<<s, k>>}
  PROVE  files' \subseteq AllFiles /\ s \in dirs' /\ dirs \subseteq dirs'
<1>1. files' \subseteq AllFiles BY DEF AllFiles
<1>2. <<s, k>> \in files' /\ <<s, k>>[1] = s OBVIOUS
<1>3. dirs \subseteq dirs' BY DEF dirs
<1> QED BY <1>1, <1>2, <1>3 DEF dirs

LEMMA CreateTyped ==
  ASSUME LTyped, NEW s \in Segments, Create(s),
         UNCHANGED <<preserve, uploaded, upload, deleter, rest>>,
         route' \in 0..MaxRoutes, video' \in Segments \cup {None}
  PROVE  LTyped'
<1>1. files' = files \cup {<<s, "qlog">>} /\ locks' = locks \cup {s}
      /\ current' = s /\ phase' = "writing"
  BY DEF Create
<1>2. files' \subseteq AllFiles /\ s \in dirs' /\ dirs \subseteq dirs'
  BY <1>1, NewFile DEF LTyped, TypeOK, Kinds
<1>3. locks' \subseteq dirs' BY <1>1, <1>2 DEF LTyped, TypeOK
<1> QED BY <1>1, <1>2, <1>3, SegmentPairs DEF LTyped, TypeOK, upload, deleter, rest

LEMMA NextTyped == LTyped /\ [Next]_vars => LTyped'
<1> SUFFICES ASSUME LTyped, [Next]_vars PROVE LTyped' OBVIOUS
<1> USE SegmentPairs DEF LTyped, TypeOK
<1>1. CASE Logger
  <2>1. CASE Start
    <3>1. route' \in 0..MaxRoutes /\ <<route', 0>> \in Segments BY <2>1 DEF Start
    <3> QED BY <2>1, <3>1, CreateTyped DEF Start
  <2>2. CASE Unlock  BY <2>2 DEF Unlock, upload, deleter, rest, dirs
  <2>3. CASE OpenNext
    <3>1. <<current[1], current[2] + 1>> \in Segments BY <2>3 DEF OpenNext
    <3> QED BY <2>3, <3>1, CreateTyped DEF OpenNext
  <2>4. CASE NextVideo
    <3>1. files' \subseteq AllFiles /\ dirs \subseteq dirs'
      BY <2>4, NewFile DEF NextVideo, Kinds
    <3> QED BY <2>4, <3>1 DEF NextVideo, upload, deleter, rest
  <2>5. CASE Bookmark  BY <2>5 DEF Bookmark, upload, loggerd, deleter, rest, dirs
  <2>6. CASE Exit  BY <2>6 DEF Exit, upload, deleter, rest, dirs
  <2>7. CASE End  BY <2>7 DEF End, disk, upload, deleter, rest, dirs
  <2>8. CASE Crash
    <3>1. failures' \in 0..MaxFailures
      BY <2>8, LogStorageAssumption DEF LogStorageAssumption, Crash
    <3>2. crashed' \subseteq Segments BY <2>8, DirsAreSegments DEF Crash
    <3>3. UNCHANGED <<disk, route, upload, deleter>> /\ phase' = "off" /\ current' = None /\ video' = None
      BY <2>8 DEF Crash
    <3> QED BY <3>1, <3>2, <3>3 DEF disk, upload, deleter, dirs
  <2>. QED  BY <1>1, <2>1, <2>2, <2>3, <2>4, <2>5, <2>6, <2>7, <2>8 DEF Logger
<1>2. CASE Uploader
  <2>1. CASE ClearLocks  BY <2>1 DEF ClearLocks, loggerd, deleter, rest, dirs
  <2>2. CASE Uploaded  BY <2>2 DEF Uploaded, loggerd, deleter, rest, dirs
  <2>3. CASE UploadFails  BY <2>3 DEF UploadFails, loggerd, disk, deleter, rest, dirs
  <2>4. ASSUME NEW metered \in BOOLEAN, NEW requested \in SUBSET (1..MaxRoutes), Pick(metered, requested)
        PROVE  LTyped'
    <3>1. uploading' \in files BY <2>4 DEF Pick, Uploadable
    <3> QED BY <2>4, <3>1 DEF Pick, loggerd, disk, deleter, rest, dirs
  <2>. QED  BY <1>2, <2>1, <2>2, <2>3, <2>4 DEF Uploader
<1>3. CASE Deleter
  <2>1. CASE Scan
    <3>1. dirs \subseteq Segments BY DirsAreSegments
    <3>2. cached' \subseteq Segments /\ cachedYes' \subseteq cached' /\ listed' \subseteq Segments
      BY <2>1, <3>1 DEF Scan
    <3>3. spared' \subseteq Segments BY <2>1 DEF Scan, Preserved
    <3> QED BY <2>1, <3>2, <3>3 DEF Scan, disk, loggerd, upload, rest, dirs
  <2>2. CASE Delete
    <3>1. PICK s \in Victims : /\ files' = {f \in files : f[1] # s}
                               /\ uploaded' = {f \in uploaded : f[1] # s}
                               /\ preserve' = preserve \ {s} /\ crashed' = crashed \ {s}
                               /\ cached' = cached \ {s} /\ cachedYes' = cachedYes \ {s}
      BY <2>2 DEF Delete
    <3>2. \A l \in locks : l \in dirs' BY <3>1, VictimsAreUnlocked DEF dirs
    <3>3. UNCHANGED <<locks, loggerd, upload, failures>> /\ listed' = {} /\ spared' = {}
      BY <2>2 DEF Delete
    <3> QED BY <3>1, <3>2, <3>3 DEF loggerd, upload
  <2>3. CASE DeleteFails  BY <2>3 DEF DeleteFails, disk, loggerd, upload, rest, dirs
  <2>4. CASE GiveUp  BY <2>4 DEF GiveUp, disk, loggerd, upload, rest, dirs
  <2>. QED  BY <1>3, <2>1, <2>2, <2>3, <2>4 DEF Deleter
<1>4. CASE PowerFailure
  <2>1. failures' \in 0..MaxFailures
    BY <1>4, LogStorageAssumption DEF LogStorageAssumption, PowerFailure
  <2> QED BY <1>4, <2>1 DEF PowerFailure, disk, dirs
<1>5. CASE UNCHANGED vars  BY <1>5 DEF vars, disk, loggerd, upload, deleter, rest, dirs
<1>. QED  BY <1>1, <1>2, <1>3, <1>4, <1>5 DEF Next

\* What the three processes keep of each other's files stays in bounds, and
\* a lock always has its directory, for any number of routes and failures.
THEOREM TypeCorrect == Spec => []TypeOK
<1>1. Init => LTyped
  BY LogStorageAssumption DEF LogStorageAssumption, Init, LTyped, TypeOK
<1>2. LTyped => TypeOK BY DEF LTyped
<1> QED BY <1>1, <1>2, NextTyped, PTL DEF Spec

(***************************************************************************)
(* athenad's upload queue.  The argument follows the ids: each is handed   *)
(* out once (Numbered), is known to its caller alone until the item is     *)
(* added (Fresh), and is then in the queue or in the hands of one handler  *)
(* (Placed); one that was cancelled and is still live stays among the      *)
(* cancelled uploads until the handler that meets it there settles it      *)
(* (Withheld).  A process that is down has neither threads at work nor     *)
(* cancellations (Stopped), so the parameter is all a restart needs.       *)
(***************************************************************************)
\* A handler has an item in its hands from the moment it takes it.
Working(h) == h \in Handlers /\ pc[h] \in {"taken", "check", "uploading"}
\* A caller has an item that nobody else has seen until it adds it.
Adding(c) == c \in Callers /\ pc[c] \in {"listQueue", "listCurrent", "add"}

Ided(items) == {i.id : i \in items}
OnePerId(items) == \A i, j \in items : i.id = j.id => i = j
\* Ids below the next one that is handed out.
Issued(items) == \A i \in items : i \in UploadItem /\ i.id <= requests

Steps == {"idle", "taken", "check", "uploading", "save", "put", "listQueue", "listCurrent", "add", "cancel"}

Shape ==
  /\ up \in BOOLEAN /\ restarts \in 0..MaxRestarts /\ requests \in 0..MaxRequests
  /\ pc \in [Threads -> Steps] /\ item \in [Threads -> UploadItem \cup {NoItem}]
  /\ snapshot \in [Threads -> SUBSET UploadItem] /\ resave \in [Threads -> BOOLEAN]
  /\ cur_upload_items \in [Handlers -> UploadItem \cup {NoItem}]
  /\ cancelled_uploads \subseteq cancelled /\ cancelled \subseteq Ids

\* An item is shown only while it is in hand.
Shown ==
  \A h \in Handlers : /\ cur_upload_items[h] \in {NoItem, item[h]}
                      /\ pc[h] \in {"idle", "taken"} => cur_upload_items[h] = NoItem

Numbered ==
  /\ Issued(upload_queue) /\ Issued(AthenadUploadQueue)
  /\ OnePerId(upload_queue) /\ OnePerId(AthenadUploadQueue)
  /\ \A t \in Threads : /\ Issued(snapshot[t]) /\ OnePerId(snapshot[t])
                        /\ item[t] # NoItem => item[t].id <= requests
  /\ \A id \in cancelled : id <= requests

\* A thread that works on an item has one.
InHand ==
  \A t \in Threads : Working(t) \/ Adding(t) \/ pc[t] = "cancel" => item[t] # NoItem

Placed ==
  /\ \A h \in Handlers : Working(h) => item[h].id \notin Ided(upload_queue)
  /\ \A g, h \in Handlers : Working(g) /\ Working(h) /\ item[g].id = item[h].id => g = h
  /\ live = Ided(upload_queue) \cup {item[h].id : h \in {g \in Handlers : Working(g)}}

Fresh ==
  \A c \in Callers : Adding(c) =>
    /\ item[c].id \notin live \cup cancelled
    /\ \A t \in Threads \ {c} : item[t] # NoItem => item[t].id # item[c].id

Withheld == cancelled \cap live \subseteq cancelled_uploads

Stopped ==
  ~up => /\ \A t \in Threads : pc[t] = "idle"
         /\ cancelled_uploads = {}

UploadsInv ==
  /\ Shape /\ Shown /\ Numbered /\ InHand /\ Placed /\ Fresh /\ Withheld /\ Stopped

\* An item's id, and the item as it goes back to the queue.
LEMMA UploadItems ==
  ASSUME NEW i \in UploadItem
  PROVE  /\ i.id \in Ids /\ i.retry_count \in 0..MAX_RETRY_COUNT /\ i # NoItem
         /\ \A n \in 0..MAX_RETRY_COUNT :
              [i EXCEPT !.retry_count = n] \in UploadItem /\ [i EXCEPT !.retry_count = n].id = i.id
BY NoItemAssumption DEF UploadItem

\* Nothing is queued, held or saved when the process starts for the first time.
LEMMA UploadsInitially == UploadsInit => UploadsInv
<1> USE UploadsAssumption
<1> SUFFICES ASSUME UploadsInit PROVE UploadsInv
  OBVIOUS
<1>1. Shape
  BY DEF UploadsInit, Shape, Steps, Ids
<1>2. Shown /\ InHand /\ Stopped
  BY DEF UploadsInit, Shown, InHand, Stopped, Working, Adding, Threads
<1>3. Numbered
  BY DEF UploadsInit, Numbered, Issued, OnePerId
<1>4. Placed /\ Fresh /\ Withheld
  BY DEF UploadsInit, Placed, Fresh, Withheld, Ided, Working, Adding, Threads
<1> QED BY <1>1, <1>2, <1>3, <1>4 DEF UploadsInv

\* A handler takes an item: from the queue into its hands.
LEMMA TakeKeeps == ASSUME UploadsInv, NEW h \in Handlers, Take(h) PROVE UploadsInv'
<1> USE UploadsAssumption DEF UploadsInv
<1>1. PICK i \in upload_queue : upload_queue' = upload_queue \ {i} /\ item' = [item EXCEPT ![h] = i]
  BY DEF Take
<1>2. /\ i \in UploadItem /\ i.id <= requests /\ i # NoItem /\ h \in Threads
      /\ up /\ pc[h] = "idle" /\ pc' = [pc EXCEPT ![h] = "taken"]
      /\ UNCHANGED <<up, restarts, cancelled_uploads, cur_upload_items, AthenadUploadQueue, snapshot, resave,
                     requests, live, cancelled>>
  BY UploadItems DEF Take, To, Numbered, Issued, Threads
<1>3. Shape'
  BY <1>1, <1>2 DEF Shape, Steps
<1>4. Shown'
  BY <1>1, <1>2 DEF Shown, Shape
<1>5. Numbered'
  BY <1>1, <1>2 DEF Numbered, Issued, OnePerId, Shape
<1>6. InHand'
  BY <1>1, <1>2 DEF InHand, Shape, Working, Adding
<1>7. Placed'
  <2>1. \A g \in Handlers : Working(g)' <=> Working(g) \/ g = h
    BY <1>2 DEF Working, Shape
  <2>2. \A g \in Handlers \ {h} : item'[g] = item[g]
    BY <1>1 DEF Shape, Threads
  <2>3. item'[h] = i /\ ~Working(h)
    BY <1>1, <1>2 DEF Shape, Working
  <2>4. Ided(upload_queue) = Ided(upload_queue') \cup {i.id} /\ i.id \notin Ided(upload_queue')
    BY <1>1 DEF Numbered, OnePerId, Ided
  <2> HIDE DEF UploadsInv
  <2> QED BY <1>2, <2>1, <2>2, <2>3, <2>4 DEF Placed, UploadsInv
<1>8. Fresh'
  <2>1. i.id \in live
    BY <1>1 DEF Placed, Ided
  <2> QED BY <1>1, <1>2, <2>1 DEF Fresh, Adding, Shape, Threads
<1>9. Withheld' /\ Stopped'
  BY <1>2 DEF Withheld, Stopped
<1> QED BY <1>3, <1>4, <1>5, <1>6, <1>7, <1>8, <1>9

\* An item in the hands of a handler ends, cancelled or not.
LEMMA SettleKeeps ==
  ASSUME UploadsInv, NEW h \in Handlers, pc[h] \in {"check", "uploading"}, Settle(h),
         \/ UNCHANGED cancelled_uploads
         \/ cancelled_uploads' = cancelled_uploads \ {item[h].id}
  PROVE  UploadsInv'
<1> USE UploadsAssumption DEF UploadsInv
<1>1. /\ h \in Threads /\ Working(h) /\ item[h] # NoItem
      /\ pc' = [pc EXCEPT ![h] = "idle"] /\ item' = [item EXCEPT ![h] = NoItem]
      /\ snapshot' = [snapshot EXCEPT ![h] = {}] /\ resave' = [resave EXCEPT ![h] = FALSE]
      /\ cur_upload_items' = [cur_upload_items EXCEPT ![h] = NoItem]
      /\ live' = live \ {item[h].id}
      /\ UNCHANGED <<up, restarts, upload_queue, AthenadUploadQueue, requests, cancelled>>
  BY DEF Settle, To, Forget, Ends, Working, InHand, Threads
<1>2. Shape'
  BY <1>1 DEF Shape, Steps
<1>3. Shown'
  BY <1>1 DEF Shown, Shape
<1>4. Numbered'
  BY <1>1 DEF Numbered, Issued, OnePerId, Shape
<1>5. InHand'
  BY <1>1 DEF InHand, Shape, Working, Adding
<1>6. Placed'
  <2>1. \A g \in Handlers : Working(g)' <=> Working(g) /\ g # h
    BY <1>1 DEF Working, Shape
  <2>2. \A g \in Handlers \ {h} : item'[g] = item[g]
    BY <1>1 DEF Shape, Threads
  <2> HIDE DEF UploadsInv
  <2> QED BY <1>1, <2>1, <2>2 DEF Placed, UploadsInv
<1>7. Fresh'
  BY <1>1 DEF Fresh, Adding, Shape, Threads
<1>8. Withheld' /\ Stopped'
  BY <1>1 DEF Withheld, Stopped
<1> QED BY <1>2, <1>3, <1>4, <1>5, <1>6, <1>7, <1>8

\* A handler puts its item back, with the same id; the queue is saved later.
LEMMA RetryKeeps ==
  ASSUME UploadsInv, NEW h \in Handlers, pc[h] \in {"check", "uploading"},
         NEW increase_count \in BOOLEAN, NEW again \in BOOLEAN,
         retry_upload(h, increase_count, again)
  PROVE  UploadsInv'
<1> USE UploadsAssumption DEF UploadsInv
<1>1. CASE ~(item[h].retry_count < MAX_RETRY_COUNT)
  BY <1>1, SettleKeeps DEF retry_upload
<1>2. CASE item[h].retry_count < MAX_RETRY_COUNT
  <2> DEFINE i == [item[h] EXCEPT !.retry_count = IF increase_count THEN @ + 1 ELSE @]
  <2>1. /\ h \in Threads /\ Working(h) /\ item[h] # NoItem /\ item[h] \in UploadItem
        /\ item[h].id <= requests
    BY DEF Working, InHand, Threads, Shape, Numbered
  <2>2. i \in UploadItem /\ i.id = item[h].id
    <3> DEFINE n == IF increase_count THEN item[h].retry_count + 1 ELSE item[h].retry_count
    <3>1. n \in 0..MAX_RETRY_COUNT
      BY <1>2, <2>1, UploadItems
    <3>2. i = [item[h] EXCEPT !.retry_count = n]
      BY <2>1 DEF UploadItem
    <3> QED BY <3>1, <3>2, <2>1, UploadItems
  <2>3. /\ upload_queue' = upload_queue \cup {i}
        /\ resave' = [resave EXCEPT ![h] = again] /\ pc' = [pc EXCEPT ![h] = "save"]
        /\ UNCHANGED <<up, restarts, cancelled_uploads, cur_upload_items, AthenadUploadQueue, item, snapshot,
                       requests, live, cancelled>>
    BY <1>2 DEF retry_upload, To
  <2> HIDE DEF i
  <2>4. Shape'
    BY <2>1, <2>3 DEF Shape, Steps
  <2>5. Shown'
    BY <2>1, <2>3 DEF Shown, Shape
  <2>6. item[h].id \notin Ided(upload_queue)
    BY <2>1 DEF Placed
  <2>7. Numbered'
    BY <2>1, <2>2, <2>3, <2>6 DEF Numbered, Issued, OnePerId, Ided
  <2>8. InHand'
    BY <2>1, <2>3 DEF InHand, Shape, Working, Adding
  <2>9. Placed'
    <3>1. \A g \in Handlers : Working(g)' <=> Working(g) /\ g # h
      BY <2>1, <2>3 DEF Working, Shape
    <3>2. Ided(upload_queue') = Ided(upload_queue) \cup {item[h].id}
      BY <2>2, <2>3 DEF Ided
    <3> HIDE DEF UploadsInv
    <3>3. \A g \in Handlers : Working(g) /\ g # h =>
            item[g].id \notin Ided(upload_queue) /\ item[g].id # item[h].id
      BY <2>1 DEF Placed, UploadsInv
    <3>4. live = Ided(upload_queue) \cup {item[g].id : g \in {f \in Handlers : Working(f)}}
      BY DEF Placed, UploadsInv
    <3>5. live' = Ided(upload_queue)' \cup {item'[g].id : g \in {f \in Handlers : Working(f)'}}
      BY <2>1, <2>3, <3>1, <3>2, <3>4
    <3>6. \A g, f \in Handlers : Working(g)' /\ Working(f)' /\ item'[g].id = item'[f].id => g = f
      BY <2>3, <3>1 DEF Placed, UploadsInv
    <3> QED BY <2>3, <3>1, <3>2, <3>3, <3>5, <3>6 DEF Placed
  <2>10. Fresh'
    BY <2>1, <2>3 DEF Fresh, Adding, Shape, Threads
  <2>11. Withheld' /\ Stopped'
    BY <2>1, <2>3 DEF Withheld, Stopped, Working
  <2> QED BY <2>4, <2>5, <2>7, <2>8, <2>9, <2>10, <2>11
<1> QED BY <1>1, <1>2

\* The upload is over; the handler saves the queue without it.
LEMMA DoneKeeps ==
  ASSUME UploadsInv, NEW h \in Handlers, pc[h] = "uploading", To(h, "save"), Ends(item[h].id),
         UNCHANGED <<up, restarts, queueVars, AthenadUploadQueue, local, requests, cancelled>>
  PROVE  UploadsInv'
<1> USE UploadsAssumption DEF UploadsInv
<1>1. /\ h \in Threads /\ Working(h) /\ item[h] # NoItem
      /\ pc' = [pc EXCEPT ![h] = "save"] /\ live' = live \ {item[h].id}
      /\ UNCHANGED <<up, restarts, upload_queue, cancelled_uploads, cur_upload_items, AthenadUploadQueue,
                     item, snapshot, resave, requests, cancelled>>
  BY DEF To, Ends, queueVars, local, Working, InHand, Threads
<1>2. Shape'
  BY <1>1 DEF Shape, Steps
<1>3. Shown'
  BY <1>1 DEF Shown, Shape
<1>4. Numbered'
  BY <1>1 DEF Numbered, Issued, OnePerId
<1>5. InHand'
  BY <1>1 DEF InHand, Shape, Working, Adding
<1>6. Placed'
  <2>1. \A g \in Handlers : Working(g)' <=> Working(g) /\ g # h
    BY <1>1 DEF Working, Shape
  <2> HIDE DEF UploadsInv
  <2> QED BY <1>1, <2>1 DEF Placed, UploadsInv
<1>7. Fresh'
  BY <1>1 DEF Fresh, Adding, Shape, Threads
<1>8. Withheld' /\ Stopped'
  BY <1>1 DEF Withheld, Stopped, Working
<1> QED BY <1>2, <1>3, <1>4, <1>5, <1>6, <1>7, <1>8

\* A handler goes on with its item: it shows it, or begins the upload.
LEMMA GoOnKeeps ==
  ASSUME UploadsInv, NEW h \in Handlers, NEW step,
         \/ pc[h] = "taken" /\ step = "check" /\ cur_upload_items' = [cur_upload_items EXCEPT ![h] = item[h]]
         \/ pc[h] = "check" /\ step = "uploading" /\ UNCHANGED cur_upload_items,
         To(h, step),
         UNCHANGED <<up, restarts, upload_queue, cancelled_uploads, AthenadUploadQueue, local, requests, live,
                     cancelled>>
  PROVE  UploadsInv'
<1> USE UploadsAssumption DEF UploadsInv
<1>1. /\ h \in Threads /\ Working(h) /\ item[h] # NoItem
      /\ step \in {"check", "uploading"} /\ pc' = [pc EXCEPT ![h] = step]
      /\ UNCHANGED <<up, restarts, upload_queue, cancelled_uploads, AthenadUploadQueue,
                     item, snapshot, resave, requests, live, cancelled>>
  BY DEF To, local, Working, InHand, Threads
<1>2. Shape' /\ Shown'
  BY <1>1 DEF Shape, Shown, Steps
<1>3. Numbered'
  BY <1>1 DEF Numbered, Issued, OnePerId
<1>4. \A t \in Threads : (Working(t)' <=> Working(t)) /\ (Adding(t)' <=> Adding(t))
  BY <1>1 DEF Working, Adding, Shape, Threads
<1>5. InHand'
  BY <1>1, <1>4 DEF InHand, Shape
<1>6. Placed' /\ Fresh'
  <2> HIDE DEF UploadsInv
  <2> QED BY <1>1, <1>4 DEF Placed, Fresh, UploadsInv, Threads
<1>7. Withheld' /\ Stopped'
  BY <1>1 DEF Withheld, Stopped, Working
<1> QED BY <1>2, <1>3, <1>5, <1>6, <1>7

\* A thread copies the queue without what is cancelled.
LEMMA TakeSnapshotKeeps == ASSUME UploadsInv, NEW t \in Threads, TakeSnapshot(t) PROVE UploadsInv'
<1> USE UploadsAssumption DEF UploadsInv
<1>1. /\ pc[t] = "save" /\ pc' = [pc EXCEPT ![t] = "put"]
      /\ snapshot' = [snapshot EXCEPT ![t] = {i \in upload_queue : i.id \notin cancelled_uploads}]
      /\ UNCHANGED <<up, restarts, upload_queue, cancelled_uploads, cur_upload_items, AthenadUploadQueue,
                     item, resave, requests, live, cancelled>>
  BY DEF TakeSnapshot, To, queueVars
<1>2. Shape' /\ Shown'
  BY <1>1 DEF Shape, Shown, Steps, Numbered, Issued
<1>3. Numbered'
  BY <1>1 DEF Numbered, Issued, OnePerId, Shape
<1>4. \A u \in Threads : (Working(u)' <=> Working(u)) /\ (Adding(u)' <=> Adding(u))
  BY <1>1 DEF Working, Adding, Shape, Threads
<1>5. InHand'
  BY <1>1, <1>4 DEF InHand, Shape
<1>6. Placed' /\ Fresh'
  <2> HIDE DEF UploadsInv
  <2> QED BY <1>1, <1>4 DEF Placed, Fresh, UploadsInv, Threads
<1>7. Withheld' /\ Stopped'
  BY <1>1 DEF Withheld, Stopped
<1> QED BY <1>2, <1>3, <1>5, <1>6, <1>7

\* ... and writes the copy to the parameter.
LEMMA WriteSnapshotKeeps == ASSUME UploadsInv, NEW t \in Threads, WriteSnapshot(t) PROVE UploadsInv'
<1> USE UploadsAssumption DEF UploadsInv
<1> DEFINE step == IF resave[t] THEN "save" ELSE "idle"
<1>1. /\ pc[t] = "put" /\ pc' = [pc EXCEPT ![t] = step] /\ step \in {"save", "idle"}
      /\ AthenadUploadQueue' = snapshot[t]
      /\ cur_upload_items' = [h \in Handlers |-> IF h = t THEN NoItem ELSE cur_upload_items[h]]
      /\ item' = [item EXCEPT ![t] = NoItem] /\ snapshot' = [snapshot EXCEPT ![t] = {}]
      /\ resave' = [resave EXCEPT ![t] = FALSE]
      /\ UNCHANGED <<up, restarts, upload_queue, cancelled_uploads, requests, live, cancelled>>
  BY DEF WriteSnapshot, To, Forget
<1> HIDE DEF step
<1>2. Shape'
  BY <1>1 DEF Shape, Steps
<1>3. Shown'
  BY <1>1 DEF Shown, Shape, Threads
<1>4. Numbered'
  BY <1>1 DEF Numbered, Issued, OnePerId, Shape
<1>5. \A u \in Threads : /\ (Working(u)' <=> Working(u)) /\ (Adding(u)' <=> Adding(u))
                         /\ Working(u) \/ Adding(u) => item'[u] = item[u]
  BY <1>1 DEF Working, Adding, Shape, Threads
<1>6. InHand'
  BY <1>1, <1>5 DEF InHand, Shape
<1>7. Placed'
  <2>1. \A h \in Handlers : (Working(h)' <=> Working(h)) /\ (Working(h) => item'[h] = item[h])
    BY <1>5 DEF Threads
  <2>2. {item'[h].id : h \in {g \in Handlers : Working(g)'}} = {item[h].id : h \in {g \in Handlers : Working(g)}}
    BY <2>1
  <2> HIDE DEF UploadsInv
  <2> QED BY <1>1, <2>1, <2>2 DEF Placed, UploadsInv
<1>8. Fresh'
  <2> HIDE DEF UploadsInv
  <2> QED BY <1>1, <1>5 DEF Fresh, UploadsInv, Threads, Shape
<1>9. Withheld' /\ Stopped'
  BY <1>1 DEF Withheld, Stopped
<1> QED BY <1>2, <1>3, <1>4, <1>6, <1>7, <1>8, <1>9

\* A caller looks for its url, and adds the item or saves the queue as it is.
LEMMA LookUpKeeps ==
  ASSUME UploadsInv, NEW c \in Callers, NEW step,
         \/ pc[c] = "listQueue" /\ step \in {"save", "listCurrent"}
         \/ pc[c] = "listCurrent" /\ step \in {"save", "add"},
         To(c, step),
         UNCHANGED <<up, restarts, queueVars, AthenadUploadQueue, local, requests, live, cancelled>>
  PROVE  UploadsInv'
<1> USE UploadsAssumption DEF UploadsInv
<1>1. /\ c \in Threads /\ pc' = [pc EXCEPT ![c] = step] /\ step \in {"save", "listCurrent", "add"} /\ Adding(c)
      /\ UNCHANGED <<up, restarts, upload_queue, cancelled_uploads, cur_upload_items, AthenadUploadQueue,
                     item, snapshot, resave, requests, live, cancelled>>
  BY DEF To, local, queueVars, Adding, Threads
<1>2. Shape' /\ Shown'
  BY <1>1 DEF Shape, Shown, Steps
<1>3. Numbered'
  BY <1>1 DEF Numbered, Issued, OnePerId
<1>4. \A t \in Threads : (Working(t)' <=> Working(t)) /\ (Adding(t)' => Adding(t))
  BY <1>1 DEF Working, Adding, Shape, Threads
<1>5. InHand'
  BY <1>1, <1>4 DEF InHand, Shape
<1>6. Placed' /\ Fresh'
  <2> HIDE DEF UploadsInv
  <2> QED BY <1>1, <1>4 DEF Placed, Fresh, UploadsInv, Threads
<1>7. Withheld' /\ Stopped'
  BY <1>1 DEF Withheld, Stopped, Adding
<1> QED BY <1>2, <1>3, <1>5, <1>6, <1>7

\* A caller gets an id that nothing has yet.
LEMMA RequestKeeps == ASSUME UploadsInv, NEW c \in Callers, Request(c) PROVE UploadsInv'
<1> USE UploadsAssumption DEF UploadsInv
<1>1. PICK url \in Urls : item' = [item EXCEPT ![c] = [id |-> requests + 1, url |-> url, retry_count |-> 0]]
  BY DEF Request
<1> DEFINE i == [id |-> requests + 1, url |-> url, retry_count |-> 0]
<1>2. /\ c \in Threads /\ up /\ pc[c] = "idle" /\ requests < MaxRequests /\ requests' = requests + 1
      /\ pc' = [pc EXCEPT ![c] = "listQueue"]
      /\ UNCHANGED <<up, restarts, upload_queue, cancelled_uploads, cur_upload_items, AthenadUploadQueue,
                     snapshot, resave, live, cancelled>>
  BY DEF Request, To, queueVars, Threads
<1>3. i \in UploadItem /\ i.id = requests' /\ i # NoItem /\ item' = [item EXCEPT ![c] = i]
      /\ requests \in Nat /\ requests' \in Nat /\ requests' > requests /\ requests' <= MaxRequests
  BY <1>1, <1>2, NoItemAssumption DEF UploadItem, Ids, Shape
<1> HIDE DEF i
<1>4. Shape' /\ Shown'
  BY <1>2, <1>3 DEF Shape, Shown, Steps, Threads
<1>5. \A j \in UploadItem : j.id \in Nat
  BY DEF UploadItem, Ids
<1>6. Numbered'
  <2>1. \A n \in Ids : n <= requests => n <= requests'
    BY <1>3 DEF Ids
  <2>2. \A items : Issued(items) => Issued(items)'
    BY <2>1, UploadItems DEF Issued
  <2>3. \A t \in Threads : item'[t] # NoItem => item'[t].id <= requests'
    BY <1>3, <2>1, UploadItems DEF Numbered, Shape
  <2>4. \A n \in cancelled : n <= requests'
    BY <2>1 DEF Numbered, Shape
  <2> QED BY <1>2, <2>2, <2>3, <2>4 DEF Numbered, OnePerId, Issued
<1>7. \A t \in Threads : /\ Working(t)' <=> Working(t)
                         /\ Adding(t)' <=> Adding(t) \/ t = c
                         /\ t # c => item'[t] = item[t]
  BY <1>2, <1>3 DEF Working, Adding, Shape, Threads
<1>8. InHand'
  BY <1>2, <1>3, <1>7 DEF InHand, Shape
<1>9. Placed'
  <2>1. \A h \in Handlers : (Working(h)' <=> Working(h)) /\ item'[h] = item[h]
    BY <1>7 DEF Threads
  <2> HIDE DEF UploadsInv
  <2> QED BY <1>2, <2>1 DEF Placed, UploadsInv
<1>10. Fresh'
  <2>1. \A t \in Threads : item[t] # NoItem => item[t].id <= requests /\ item[t].id \in Nat
    BY <1>5 DEF Numbered, Shape
  <2>2. \A j \in upload_queue : j.id <= requests /\ j.id \in Nat
    BY <1>5 DEF Numbered, Issued
  <2>3. \A n \in live : n <= requests /\ n \in Nat
    <3>1. \A h \in Handlers : Working(h) => item[h].id <= requests /\ item[h].id \in Nat
      BY <2>1 DEF InHand, Threads
    <3> HIDE DEF UploadsInv
    <3>2. live = Ided(upload_queue) \cup {item[h].id : h \in {g \in Handlers : Working(g)}}
      BY DEF Placed, UploadsInv
    <3> QED BY <2>2, <3>1, <3>2 DEF Ided
  <2>4. \A n \in cancelled : n <= requests /\ n \in Nat
    BY DEF Numbered, Shape, Ids
  <2>5. item'[c].id = requests + 1 /\ ~(requests + 1 <= requests)
    BY <1>2, <1>3 DEF Shape
  <2> HIDE DEF UploadsInv
  <2> SUFFICES ASSUME NEW d \in Callers, Adding(d)'
               PROVE  /\ item'[d].id \notin live \cup cancelled
                      /\ \A t \in Threads \ {d} : item'[t] # NoItem => item'[t].id # item'[d].id
    BY <1>2 DEF Fresh
  <2>6. CASE d = c
    BY <2>1, <2>3, <2>4, <2>5, <2>6, <1>7
  <2>7. CASE d # c
    <3>1. d \in Threads /\ Adding(d) /\ item'[d] = item[d] /\ item[d] # NoItem
      BY <2>7, <1>7 DEF Threads, InHand, UploadsInv
    <3>2. item[d].id # item'[c].id
      BY <3>1, <2>1, <2>5
    <3> QED BY <3>1, <3>2, <1>7 DEF Fresh, UploadsInv
  <2> QED BY <2>6, <2>7
<1>11. Withheld' /\ Stopped'
  BY <1>2 DEF Withheld, Stopped
<1> QED BY <1>4, <1>6, <1>8, <1>9, <1>10, <1>11

\* A caller adds its item, which is live from then on.
LEMMA AddKeeps == ASSUME UploadsInv, NEW c \in Callers, Add(c) PROVE UploadsInv'
<1> USE UploadsAssumption DEF UploadsInv
<1>1. /\ c \in Threads /\ Adding(c) /\ item[c] # NoItem /\ item[c] \in UploadItem /\ item[c].id <= requests
      /\ item[c].id \notin live \cup cancelled
      /\ upload_queue' = upload_queue \cup {item[c]} /\ live' = live \cup {item[c].id}
      /\ pc' = [pc EXCEPT ![c] = "save"] /\ item' = [item EXCEPT ![c] = NoItem]
      /\ UNCHANGED <<up, restarts, cancelled_uploads, cur_upload_items, AthenadUploadQueue, snapshot, resave,
                     requests, cancelled>>
  BY DEF Add, To, Adding, InHand, Shape, Numbered, Fresh, Threads
<1>2. Shape' /\ Shown'
  BY <1>1 DEF Shape, Shown, Steps, Threads
<1>3. Numbered'
  <2>1. \A i \in upload_queue : i.id # item[c].id
    BY <1>1 DEF Placed, Ided
  <2> QED BY <1>1, <2>1 DEF Numbered, Issued, OnePerId, Shape
<1>4. \A t \in Threads : /\ Working(t)' <=> Working(t)
                         /\ Adding(t)' <=> Adding(t) /\ t # c
                         /\ t # c => item'[t] = item[t] /\ pc'[t] = pc[t]
  BY <1>1 DEF Working, Adding, Shape, Threads
<1>5. InHand'
  <2>1. pc'[c] = "save"
    BY <1>1 DEF Shape
  <2> QED BY <1>1, <1>4, <2>1 DEF InHand, Working, Adding
<1>6. Placed'
  <2>1. \A h \in Handlers : (Working(h)' <=> Working(h)) /\ item'[h] = item[h]
    BY <1>4 DEF Threads
  <2>2. Ided(upload_queue') = Ided(upload_queue) \cup {item[c].id}
    BY <1>1 DEF Ided
  <2>3. live = Ided(upload_queue) \cup {item[h].id : h \in {g \in Handlers : Working(g)}}
    BY DEF Placed
  <2>4. \A h \in Handlers : Working(h) => item[h].id # item[c].id
    BY <1>1, <2>3
  <2>5. live' = Ided(upload_queue') \cup {item'[h].id : h \in {g \in Handlers : Working(g)'}}
    BY <1>1, <2>1, <2>2, <2>3
  <2> HIDE DEF UploadsInv
  <2> QED BY <1>1, <2>1, <2>2, <2>4, <2>5 DEF Placed, UploadsInv
<1>7. Fresh'
  <2> HIDE DEF UploadsInv
  <2> SUFFICES ASSUME NEW d \in Callers, Adding(d)'
               PROVE  /\ item'[d].id \notin live' \cup cancelled'
                      /\ \A t \in Threads \ {d} : item'[t] # NoItem => item'[t].id # item'[d].id
    BY DEF Fresh
  <2>1. d \in Threads /\ Adding(d) /\ d # c /\ item'[d] = item[d] /\ item'[c] = NoItem
    BY <1>1, <1>4 DEF Threads, Shape, UploadsInv
  <2> QED BY <1>1, <1>4, <2>1 DEF Fresh, UploadsInv
<1>8. Withheld' /\ Stopped'
  BY <1>1 DEF Withheld, Stopped, Adding
<1> QED BY <1>2, <1>3, <1>5, <1>6, <1>7, <1>8

\* A caller finds an item of the queue ...
LEMMA FindToCancelKeeps == ASSUME UploadsInv, NEW c \in Callers, FindToCancel(c) PROVE UploadsInv'
<1> USE UploadsAssumption DEF UploadsInv
<1>1. PICK i \in upload_queue : item' = [item EXCEPT ![c] = i]
  BY DEF FindToCancel
<1>2. /\ i \in UploadItem /\ i.id <= requests /\ i # NoItem /\ c \in Threads
      /\ up /\ pc[c] = "idle" /\ pc' = [pc EXCEPT ![c] = "cancel"] /\ i.id \in live
      /\ UNCHANGED <<up, restarts, upload_queue, cancelled_uploads, cur_upload_items, AthenadUploadQueue,
                     snapshot, resave, requests, live, cancelled>>
  BY UploadItems DEF FindToCancel, To, Numbered, Issued, Threads, queueVars, Placed, Ided
<1>3. Shape' /\ Shown'
  BY <1>1, <1>2 DEF Shape, Shown, Steps, Threads
<1>4. Numbered'
  BY <1>1, <1>2 DEF Numbered, Issued, OnePerId, Shape
<1>5. \A t \in Threads : /\ Working(t)' <=> Working(t)
                         /\ Adding(t)' <=> Adding(t) /\ t # c
                         /\ t # c => item'[t] = item[t] /\ pc'[t] = pc[t]
  BY <1>1, <1>2 DEF Working, Adding, Shape, Threads
<1>6. InHand'
  BY <1>1, <1>2, <1>5 DEF InHand, Shape
<1>7. Placed'
  <2>1. \A h \in Handlers : (Working(h)' <=> Working(h)) /\ item'[h] = item[h]
    BY <1>5 DEF Threads
  <2> HIDE DEF UploadsInv
  <2> QED BY <1>2, <2>1 DEF Placed, UploadsInv
<1>8. Fresh'
  <2> HIDE DEF UploadsInv
  <2> SUFFICES ASSUME NEW d \in Callers, Adding(d)'
               PROVE  /\ item'[d].id \notin live' \cup cancelled'
                      /\ \A t \in Threads \ {d} : item'[t] # NoItem => item'[t].id # item'[d].id
    BY DEF Fresh
  <2>1. d \in Threads /\ Adding(d) /\ d # c /\ item'[d] = item[d] /\ item'[c] = i
    BY <1>1, <1>2, <1>5 DEF Threads, Shape, UploadsInv
  <2> QED BY <1>2, <1>5, <2>1 DEF Fresh, UploadsInv
<1>9. Withheld' /\ Stopped'
  BY <1>2 DEF Withheld, Stopped
<1> QED BY <1>3, <1>4, <1>6, <1>7, <1>8, <1>9

\* ... and marks its id.
LEMMA CancelKeeps == ASSUME UploadsInv, NEW c \in Callers, Cancel(c) PROVE UploadsInv'
<1> USE UploadsAssumption DEF UploadsInv
<1>1. /\ c \in Threads /\ pc[c] = "cancel" /\ pc' = [pc EXCEPT ![c] = "idle"]
      /\ item[c] \in UploadItem /\ item[c].id <= requests /\ item[c] # NoItem
      /\ cancelled_uploads' = cancelled_uploads \cup {item[c].id} /\ cancelled' = cancelled \cup {item[c].id}
      /\ item' = [item EXCEPT ![c] = NoItem]
      /\ snapshot' = [snapshot EXCEPT ![c] = {}] /\ resave' = [resave EXCEPT ![c] = FALSE]
      /\ UNCHANGED <<up, restarts, upload_queue, cur_upload_items, AthenadUploadQueue, requests, live>>
  BY DEF Cancel, To, Forget, InHand, Shape, Numbered, Threads
<1>2. item[c].id \in Ids
  BY <1>1, UploadItems
<1>3. Shape' /\ Shown'
  BY <1>1, <1>2 DEF Shape, Shown, Steps, Threads
<1>4. Numbered'
  BY <1>1 DEF Numbered, Issued, OnePerId, Shape
<1>5. \A t \in Threads : /\ Working(t)' <=> Working(t)
                         /\ Adding(t)' <=> Adding(t) /\ t # c
                         /\ t # c => item'[t] = item[t] /\ pc'[t] = pc[t]
  BY <1>1 DEF Working, Adding, Shape, Threads
<1>6. InHand'
  <2>1. pc'[c] = "idle"
    BY <1>1 DEF Shape
  <2> QED BY <1>1, <1>5, <2>1 DEF InHand, Working, Adding
<1>7. Placed'
  <2>1. \A h \in Handlers : (Working(h)' <=> Working(h)) /\ item'[h] = item[h]
    BY <1>5 DEF Threads
  <2> HIDE DEF UploadsInv
  <2> QED BY <1>1, <2>1 DEF Placed, UploadsInv
<1>8. Fresh'
  <2> HIDE DEF UploadsInv
  <2> SUFFICES ASSUME NEW d \in Callers, Adding(d)'
               PROVE  /\ item'[d].id \notin live' \cup cancelled'
                      /\ \A t \in Threads \ {d} : item'[t] # NoItem => item'[t].id # item'[d].id
    BY DEF Fresh
  <2>1. d \in Threads /\ Adding(d) /\ d # c /\ item'[d] = item[d] /\ item'[c] = NoItem
    BY <1>1, <1>5 DEF Threads, Shape, UploadsInv
  <2> QED BY <1>1, <1>5, <2>1 DEF Fresh, UploadsInv
<1>9. Withheld' /\ Stopped'
  BY <1>1 DEF Withheld, Stopped
<1> QED BY <1>3, <1>4, <1>6, <1>7, <1>8, <1>9

\* A process that stops leaves the parameter, and one that starts reads it.
LEMMA StopKeeps == ASSUME UploadsInv, Stop PROVE UploadsInv'
<1> USE UploadsAssumption DEF UploadsInv
<1>1. Shape'
  <2>1. restarts' \in 0..MaxRestarts /\ up' \in BOOLEAN /\ requests' \in 0..MaxRequests
    <3>1. /\ restarts \in 0..MaxRestarts /\ restarts < MaxRestarts /\ restarts' = restarts + 1
          /\ up' = FALSE /\ requests' = requests /\ requests \in 0..MaxRequests
      BY DEF Stop, Shape
    <3>2. restarts + 1 \in 0..MaxRestarts
      BY <3>1
    <3> HIDE DEF UploadsInv
    <3> QED BY <3>1, <3>2, Zenon
  <2>2. cancelled_uploads' \subseteq cancelled' /\ cancelled' \subseteq Ids
    BY DEF Stop, Shape
  <2>3. /\ pc' \in [Threads -> Steps] /\ resave' \in [Threads -> BOOLEAN]
        /\ item' \in [Threads -> UploadItem \cup {NoItem}]
        /\ snapshot' \in [Threads -> SUBSET UploadItem]
        /\ cur_upload_items' \in [Handlers -> UploadItem \cup {NoItem}]
    BY DEF Stop, Steps
  <2> QED BY <2>1, <2>2, <2>3 DEF Shape
<1>2. Shown' /\ InHand'
  BY DEF Stop, Shape, Shown, InHand, Working, Adding, Threads
<1>3. Numbered'
  BY DEF Stop, Numbered, Issued, OnePerId
<1>4. Placed' /\ Fresh' /\ Withheld' /\ Stopped'
  BY DEF Stop, Placed, Fresh, Withheld, Stopped, Ided, Working, Adding, Threads
<1> QED BY <1>1, <1>2, <1>3, <1>4

\* The queue that starts is the one that was saved: one item for an id, no thread at work.
LEMMA InitializeKeeps == ASSUME UploadsInv, Initialize PROVE UploadsInv'
<1> USE UploadsAssumption DEF UploadsInv
<1>1. /\ \A t \in Threads : pc[t] = "idle"
      /\ cancelled_uploads = {} /\ cancelled' = {} /\ up'
      /\ upload_queue' = AthenadUploadQueue /\ live' = Ided(AthenadUploadQueue)
      /\ UNCHANGED <<restarts, cancelled_uploads, cur_upload_items, AthenadUploadQueue, pc, item, snapshot,
                     resave, requests>>
  BY DEF Initialize, Stopped, Ided, local
<1>2. Shape' /\ Shown' /\ InHand'
  BY <1>1 DEF Initialize, Shape, Shown, InHand, Working, Adding
<1>3. Numbered'
  BY <1>1 DEF Numbered, Issued, OnePerId
<1>4. \A t \in Threads : ~Working(t)' /\ ~Adding(t)'
  BY <1>1 DEF Working, Adding
<1>5. Placed' /\ Fresh'
  BY <1>1, <1>4 DEF Placed, Fresh, Threads
<1>6. Withheld' /\ Stopped'
  BY <1>1 DEF Withheld, Stopped
<1> QED BY <1>2, <1>3, <1>5, <1>6

\* Both halves of a save keep the invariant.
LEMMA SaveKeeps == ASSUME UploadsInv, NEW t \in Threads, Save(t) PROVE UploadsInv'
BY TakeSnapshotKeeps, WriteSnapshotKeeps DEF Save

\* What handlers do keeps the invariant ...
LEMMA HandleKeeps == ASSUME UploadsInv, NEW h \in Handlers, Handle(h) PROVE UploadsInv'
<1>1. CASE Take(h)  BY <1>1, TakeKeeps
<1>2. CASE SetCurrent(h)
  BY <1>2, GoOnKeeps DEF SetCurrent
<1>3. CASE SkipCancelled(h)
  BY <1>3, SettleKeeps DEF SkipCancelled
<1>4. CASE Expire(h)
  BY <1>4, SettleKeeps DEF Expire, Proceeds
<1>5. CASE Metered(h)
  BY <1>5, RetryKeeps DEF Metered, Proceeds
<1>6. CASE Begin(h)
  BY <1>6, GoOnKeeps DEF Begin, Proceeds, queueVars
<1>7. CASE Success(h)
  BY <1>7, DoneKeeps DEF Success
<1>8. CASE Fail(h)
  <2>1. CASE retry_upload(h, TRUE, FALSE)
    BY <1>8, <2>1, RetryKeeps DEF Fail
  <2>2. CASE retry_upload(h, TRUE, TRUE)
    BY <1>8, <2>2, RetryKeeps DEF Fail
  <2>3. CASE /\ To(h, "save") /\ Ends(item[h].id)
             /\ UNCHANGED <<up, restarts, queueVars, AthenadUploadQueue, local, requests, cancelled>>
    BY <1>8, <2>3, DoneKeeps DEF Fail
  <2> QED BY <1>8, <2>1, <2>2, <2>3 DEF Fail
<1>9. CASE Error(h)
  BY <1>9, SettleKeeps DEF Error
<1>10. CASE Abort(h)
  BY <1>10, RetryKeeps DEF Abort
<1>11. CASE Save(h)
  BY <1>11, SaveKeeps DEF Threads
<1> QED BY <1>1, <1>2, <1>3, <1>4, <1>5, <1>6, <1>7, <1>8, <1>9, <1>10, <1>11 DEF Handle, Attempt

\* ... and so does what callers do.
LEMMA ServeKeeps ==
  ASSUME UploadsInv, NEW c \in Callers, Request(c) \/ FindToCancel(c) \/ Serve(c)
  PROVE  UploadsInv'
<1>1. CASE ListQueue(c)
  <2> DEFINE step == IF \E i \in upload_queue : SameUrl(c, i) THEN "save" ELSE "listCurrent"
  <2>1. pc[c] = "listQueue" /\ step \in {"save", "listCurrent"} /\ To(c, step)
    BY <1>1 DEF ListQueue
  <2> HIDE DEF step
  <2> QED BY <1>1, <2>1, LookUpKeeps DEF ListQueue
<1>2. CASE ListCurrent(c)
  <2> DEFINE step == IF \E h \in Handlers : cur_upload_items[h] # NoItem /\ SameUrl(c, cur_upload_items[h])
                       THEN "save" ELSE "add"
  <2>1. pc[c] = "listCurrent" /\ step \in {"save", "add"} /\ To(c, step)
    BY <1>2 DEF ListCurrent
  <2> HIDE DEF step
  <2> QED BY <1>2, <2>1, LookUpKeeps DEF ListCurrent
<1>3. CASE Save(c)
  BY <1>3, SaveKeeps DEF Threads
<1> QED BY <1>1, <1>2, <1>3, RequestKeeps, FindToCancelKeeps, AddKeeps, CancelKeeps DEF Serve

\* The invariant speaks of the variables only.
LEMMA UploadsStutter == ASSUME UploadsInv, UNCHANGED uploadsVars PROVE UploadsInv'
BY DEF UploadsInv, uploadsVars, queueVars, local, Shape, Shown, Numbered, InHand, Placed, Fresh, Withheld, Stopped,
       Issued, OnePerId, Ided, Working, Adding

\* In every reachable state, for any number of threads, requests, retries and restarts.
THEOREM UploadsInvariant == UploadsSpec => []UploadsInv
<1>1. UploadsInit => UploadsInv
  BY UploadsInitially
<1>2. UploadsInv /\ [UploadsNext]_uploadsVars => UploadsInv'
  BY StopKeeps, InitializeKeeps, HandleKeeps, ServeKeeps, UploadsStutter DEF UploadsNext
<1> QED BY <1>1, <1>2, PTL DEF UploadsSpec

\* Every variable of athenad's uploads keeps its type: in particular the retry counts.
THEOREM UploadsTypeCorrect == UploadsSpec => []UploadsTypeOK
<1>1. UploadsInv => UploadsTypeOK
  BY DEF UploadsInv, UploadsTypeOK, Shape, Shown, Numbered, Issued
<1> QED BY <1>1, UploadsInvariant, PTL

\* An accepted upload is in one place, the queue or the hands of one handler, until it is
\* uploaded, cancelled or given up (Accounted).
THEOREM AccountedTheorem == UploadsSpec => []Accounted
<1>1. ASSUME UploadsInv, NEW id \in Ids
      PROVE  Cardinality({i \in upload_queue : i.id = id}) + Cardinality({h \in Handlers : Holds(h, id)})
               = IF id \in live THEN 1 ELSE 0
  <2> DEFINE queued == {i \in upload_queue : i.id = id}
             held == {h \in Handlers : Holds(h, id)}
  <2> SUFFICES Cardinality(queued) + Cardinality(held) = IF id \in live THEN 1 ELSE 0
    OBVIOUS
  <2>1. /\ live = Ided(upload_queue) \cup {item[h].id : h \in {g \in Handlers : Working(g)}}
        /\ \A h \in Handlers : Working(h) => item[h].id \notin Ided(upload_queue)
        /\ \A g, h \in Handlers : Working(g) /\ Working(h) /\ item[g].id = item[h].id => g = h
        /\ \A i, j \in upload_queue : i.id = j.id => i = j
    BY <1>1 DEF UploadsInv, Placed, Numbered, OnePerId
  <2>2. \A h \in Handlers : Holds(h, id) <=> Working(h) /\ item[h].id = id
    BY DEF Holds, Working
  <2>3. \A S : (S = {} => Cardinality(S) = 0) /\ (\A x : S = {x} => Cardinality(S) = 1)
    BY FS_EmptySet, FS_Singleton
  <2>4. CASE \E i \in upload_queue : i.id = id
    <3>1. PICK i \in upload_queue : i.id = id
      BY <2>4
    <3>2. queued = {i} /\ held = {} /\ id \in live
      BY <2>1, <2>2, <3>1 DEF Ided
    <3>3. Cardinality(queued) = 1 /\ Cardinality(held) = 0
      BY <2>3, <3>2
    <3> HIDE DEF queued, held
    <3> QED BY <3>2, <3>3
  <2>5. CASE \E h \in Handlers : Holds(h, id)
    <3>1. PICK h \in Handlers : Holds(h, id)
      BY <2>5
    <3>2. queued = {} /\ held = {h} /\ id \in live
      BY <2>1, <2>2, <3>1 DEF Ided
    <3>3. Cardinality(queued) = 0 /\ Cardinality(held) = 1
      BY <2>3, <3>2
    <3> HIDE DEF queued, held
    <3> QED BY <3>2, <3>3
  <2>6. CASE (\A i \in upload_queue : i.id # id) /\ (\A h \in Handlers : ~Holds(h, id))
    <3>1. queued = {} /\ held = {} /\ id \notin live
      BY <2>1, <2>2, <2>6 DEF Ided
    <3>2. Cardinality(queued) = 0 /\ Cardinality(held) = 0
      BY <2>3, <3>1
    <3> HIDE DEF queued, held
    <3> QED BY <3>1, <3>2
  <2> QED BY <2>4, <2>5, <2>6
<1>2. UploadsInv => Accounted
  BY <1>1 DEF Accounted
<1> QED BY <1>2, UploadsInvariant, PTL

\* No upload begins after cancelUpload has returned success for its id: only the check
\* leads to it, and what is withheld from an item in hand is its id in cancelled_uploads.
THEOREM CancelHoldsTheorem == UploadsSpec => CancelHolds
<1>1. ASSUME UploadsInv, [UploadsNext]_uploadsVars, NEW h \in Handlers, pc[h] = "check", pc'[h] = "uploading"
      PROVE  item[h].id \notin cancelled
  <2>1. h \in Threads /\ Working(h) /\ pc \in [Threads -> Steps] /\ item[h].id \in live
    BY <1>1 DEF UploadsInv, Shape, Threads, Working, Placed
  <2>2. item[h].id \notin cancelled_uploads
    <3>1. CASE Stop  BY <1>1, <2>1, <3>1 DEF Stop
    <3>2. CASE Initialize \/ UNCHANGED uploadsVars
      BY <1>1, <3>2 DEF Initialize, uploadsVars
    <3>3. ASSUME NEW t \in Threads, NEW step, To(t, step), t = h => step # "uploading" PROVE FALSE
      BY <1>1, <2>1, <3>3 DEF To
    <3>4. ASSUME NEW t \in Threads, Save(t) PROVE FALSE
      BY <3>3, <3>4 DEF Save, TakeSnapshot, WriteSnapshot
    <3>5. ASSUME NEW c \in Callers, Request(c) \/ FindToCancel(c) \/ Serve(c) PROVE FALSE
      <4>1. c \in Threads /\ c # h
        BY UploadsAssumption DEF Threads
      <4>2. \E step : To(c, step)
        BY <3>5, <3>4, <4>1 DEF Request, FindToCancel, Serve, ListQueue, ListCurrent, Add, Cancel
      <4> QED BY <4>1, <4>2, <3>3
    <3>6. ASSUME NEW g \in Handlers, Handle(g), ~Begin(g) PROVE FALSE
      <4>1. g \in Threads /\ ~Save(g)
        BY <3>4 DEF Threads
      <4>2. \E step : To(g, step) /\ step # "uploading"
        BY <3>6, <4>1 DEF Handle, Attempt, Take, SetCurrent, SkipCancelled, Expire, Metered, Success, Fail,
                          Abort, Error, retry_upload, Settle
      <4> QED BY <4>1, <4>2, <3>3
    <3>7. ASSUME NEW g \in Handlers, Begin(g) PROVE g = h
      BY <1>1, <2>1, <3>7 DEF Begin, To, Threads
    <3> QED BY <1>1, <3>1, <3>2, <3>5, <3>6, <3>7 DEF UploadsNext, Begin, Proceeds
  <2> QED BY <1>1, <2>1, <2>2 DEF UploadsInv, Withheld
<1>2. UploadsInv /\ [UploadsNext]_uploadsVars =>
        [\A h \in Handlers : pc[h] = "check" /\ pc'[h] = "uploading" => item[h].id \notin cancelled]_uploadsVars
  BY <1>1
<1> QED BY <1>2, UploadsInvariant, PTL DEF CancelHolds, UploadsSpec
===============================================================================

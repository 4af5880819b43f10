--------------------------- MODULE AthenadUploads ---------------------------
(***************************************************************************)
(* athenad's upload queue (system/athena/athenad.py): RPC threads add and  *)
(* cancel uploads, handler threads take them from one priority queue,      *)
(* upload and retry, and every change of the queue is written to the       *)
(* parameter AthenadUploadQueue, which a restart reads.  All items have    *)
(* one priority.  Reconnecting to the server ends the threads only after   *)
(* they have put their items back, and is left out.                        *)
(***************************************************************************)
EXTENDS Integers, FiniteSets

CONSTANTS
  Handlers, Callers,     \* upload_handler and jsonrpc_handler threads
  Urls,
  MAX_RETRY_COUNT,       \* 30 in the code
  MaxRequests,           \* bound: RPC requests for an upload
  MaxRestarts,           \* bound: restarts of the process
  NoItem                 \* no item

ASSUME UploadsAssumption ==
  /\ Handlers \cap Callers = {}
  /\ MAX_RETRY_COUNT \in Nat /\ MaxRequests \in Nat /\ MaxRestarts \in Nat

Threads == Handlers \cup Callers
Ids == 1..MaxRequests
UploadItem == [id : Ids, url : Urls, retry_count : 0..MAX_RETRY_COUNT]

ASSUME NoItemAssumption == NoItem \notin UploadItem

VARIABLES
  up, restarts,
  upload_queue,          \* set of items
  cancelled_uploads,     \* ids
  cur_upload_items,      \* handler -> item or NoItem
  AthenadUploadQueue,    \* the parameter: the items that survive a restart
  pc, item, snapshot,    \* per thread: step, item in hand, queue it is about to save
  resave,                \* per thread: saves once more after the retry delay
  requests,              \* ids handed out
  live,                  \* history: ids accepted and not yet uploaded, cancelled or given up
  cancelled              \* history: ids whose cancelUpload returned success in this process

queueVars == <<upload_queue, cancelled_uploads, cur_upload_items>>
local == <<item, snapshot, resave>>
uploadsVars == <<up, restarts, queueVars, AthenadUploadQueue, pc, local, requests, live, cancelled>>

To(t, step) == pc' = [pc EXCEPT ![t] = step]
Ends(id) == live' = live \ {id}
\* A thread that waits for work does not remember what it did before.
Forget(t) ==
  /\ item' = [item EXCEPT ![t] = NoItem] /\ snapshot' = [snapshot EXCEPT ![t] = {}]
  /\ resave' = [resave EXCEPT ![t] = FALSE]

UploadsInit ==
  /\ up = TRUE /\ restarts = 0 /\ requests = 0
  /\ upload_queue = {} /\ cancelled_uploads = {} /\ AthenadUploadQueue = {}
  /\ cur_upload_items = [h \in Handlers |-> NoItem]
  /\ pc = [t \in Threads |-> "idle"] /\ item = [t \in Threads |-> NoItem]
  /\ snapshot = [t \in Threads |-> {}] /\ resave = [t \in Threads |-> FALSE]
  /\ live = {} /\ cancelled = {}

-----------------------------------------------------------------------------
\* UploadQueueCache.cache copies the queue ...
TakeSnapshot(t) ==
  /\ pc[t] = "save"
  /\ snapshot' = [snapshot EXCEPT ![t] = {i \in upload_queue : i.id \notin cancelled_uploads}]
  /\ To(t, "put")
  /\ UNCHANGED <<up, restarts, queueVars, AthenadUploadQueue, item, resave, requests, live, cancelled>>

\* ... and writes it to the parameter.  A handler drops its current item then, and
\* after a status that calls for a retry saves once more.
WriteSnapshot(t) ==
  /\ pc[t] = "put"
  /\ AthenadUploadQueue' = snapshot[t]
  /\ cur_upload_items' = [h \in Handlers |-> IF h = t THEN NoItem ELSE cur_upload_items[h]]
  /\ To(t, IF resave[t] THEN "save" ELSE "idle") /\ Forget(t)
  /\ UNCHANGED <<up, restarts, upload_queue, cancelled_uploads, requests, live, cancelled>>

-----------------------------------------------------------------------------
\* Mutant: the item is looked at and stays in the queue.
MutTake(h) ==
  /\ up /\ pc[h] = "idle"
  /\ \E i \in upload_queue : item' = [item EXCEPT ![h] = i]
  /\ To(h, "taken")
  /\ UNCHANGED <<up, restarts, queueVars, AthenadUploadQueue, snapshot, resave, requests, live, cancelled>>

\* upload_handler takes an item from the queue ...
Take(h) ==
  /\ up /\ pc[h] = "idle"
  /\ \E i \in upload_queue : /\ upload_queue' = upload_queue \ {i}
                             /\ item' = [item EXCEPT ![h] = i]
  /\ To(h, "taken")
  /\ UNCHANGED <<up, restarts, cancelled_uploads, cur_upload_items, AthenadUploadQueue, snapshot, resave,
                 requests, live, cancelled>>

\* ... and shows it in cur_upload_items.
SetCurrent(h) ==
  /\ pc[h] = "taken"
  /\ cur_upload_items' = [cur_upload_items EXCEPT ![h] = item[h]] /\ To(h, "check")
  /\ UNCHANGED <<up, restarts, upload_queue, cancelled_uploads, AthenadUploadQueue, local, requests, live,
                 cancelled>>

\* The iteration ends with the item gone.
Settle(h) ==
  /\ To(h, "idle") /\ Forget(h)
  /\ cur_upload_items' = [cur_upload_items EXCEPT ![h] = NoItem]
  /\ Ends(item[h].id)
  /\ UNCHANGED <<up, restarts, upload_queue, AthenadUploadQueue, requests, cancelled>>

\* Mutant: the comparison with MAX_RETRY_COUNT is off by one.
MutRetryOnceMore(h, increase_count, again) ==
  IF item[h].retry_count <= MAX_RETRY_COUNT
    THEN /\ upload_queue' = upload_queue \cup
              {[item[h] EXCEPT !.retry_count = IF increase_count THEN @ + 1 ELSE @]}
         /\ resave' = [resave EXCEPT ![h] = again] /\ To(h, "save")
         /\ UNCHANGED <<up, restarts, cancelled_uploads, cur_upload_items, AthenadUploadQueue, item, snapshot,
                        requests, live, cancelled>>
    ELSE Settle(h) /\ UNCHANGED cancelled_uploads

\* Mutant: the item goes back as it was taken, its new retry_count is lost.
MutRetryUncounted(h, increase_count, again) ==
  IF item[h].retry_count < MAX_RETRY_COUNT
    THEN /\ upload_queue' = upload_queue \cup {item[h]}
         /\ resave' = [resave EXCEPT ![h] = again] /\ To(h, "save")
         /\ UNCHANGED <<up, restarts, cancelled_uploads, cur_upload_items, AthenadUploadQueue, item, snapshot,
                        requests, live, cancelled>>
    ELSE Settle(h) /\ UNCHANGED cancelled_uploads

\* retry_upload: below MAX_RETRY_COUNT the item goes back to the queue; else it is
\* dropped, even when the retry was not to count.
retry_upload(h, increase_count, again) ==
  IF item[h].retry_count < MAX_RETRY_COUNT
    THEN /\ upload_queue' = upload_queue \cup
              {[item[h] EXCEPT !.retry_count = IF increase_count THEN @ + 1 ELSE @]}
         /\ resave' = [resave EXCEPT ![h] = again] /\ To(h, "save")
         /\ UNCHANGED <<up, restarts, cancelled_uploads, cur_upload_items, AthenadUploadQueue, item, snapshot,
                        requests, live, cancelled>>
    ELSE Settle(h) /\ UNCHANGED cancelled_uploads

SkipCancelled(h) ==
  /\ pc[h] = "check" /\ item[h].id \in cancelled_uploads
  /\ cancelled_uploads' = cancelled_uploads \ {item[h].id}
  /\ Settle(h)

\* Mutant: a retried item is not looked up among the cancelled ones.
MutProceeds(h) ==
  pc[h] = "check" /\ (item[h].id \notin cancelled_uploads \/ item[h].retry_count > 0)

\* The item was not cancelled.
Proceeds(h) == pc[h] = "check" /\ item[h].id \notin cancelled_uploads

\* The item is older than MAX_AGE.
Expire(h) == Proceeds(h) /\ Settle(h) /\ UNCHANGED cancelled_uploads

\* The network is metered, and the item does not allow that.
Metered(h) == Proceeds(h) /\ retry_upload(h, FALSE, FALSE)

Begin(h) ==
  /\ Proceeds(h) /\ To(h, "uploading")
  /\ UNCHANGED <<up, restarts, queueVars, AthenadUploadQueue, local, requests, live, cancelled>>

\* The server accepted or refused the file for good.
Success(h) ==
  /\ pc[h] = "uploading" /\ To(h, "save")
  /\ Ends(item[h].id)
  /\ UNCHANGED <<up, restarts, queueVars, AthenadUploadQueue, local, requests, cancelled>>

\* Another status, or a time-out or connection error; after a status the queue is saved
\* again even when the item was not put back.
Fail(h) ==
  /\ pc[h] = "uploading"
  /\ \/ retry_upload(h, TRUE, FALSE)
     \/ item[h].retry_count < MAX_RETRY_COUNT /\ retry_upload(h, TRUE, TRUE)
     \/ /\ item[h].retry_count = MAX_RETRY_COUNT
        /\ To(h, "save") /\ Ends(item[h].id)
        /\ UNCHANGED <<up, restarts, queueVars, AthenadUploadQueue, local, requests, cancelled>>

\* AbortTransferException: the network became metered or the connection ended.
Abort(h) == pc[h] = "uploading" /\ retry_upload(h, FALSE, FALSE)

\* Any other exception, such as a file that is gone: nothing is saved.
Error(h) == pc[h] = "uploading" /\ Settle(h) /\ UNCHANGED cancelled_uploads

-----------------------------------------------------------------------------
\* uploadFilesToUrls with one file.
Request(c) ==
  /\ up /\ pc[c] = "idle" /\ requests < MaxRequests
  /\ requests' = requests + 1
  /\ \E url \in Urls :
       item' = [item EXCEPT ![c] = [id |-> requests + 1, url |-> url, retry_count |-> 0]]
  /\ To(c, "listQueue")
  /\ UNCHANGED <<up, restarts, queueVars, AthenadUploadQueue, snapshot, resave, live, cancelled>>

\* Not cancelled, and for the same url as the caller's item.
SameUrl(c, i) == i.url = item[c].url /\ i.id \notin cancelled_uploads

\* listUploadQueue reads the queue, then cur_upload_items; a url that is in either is
\* not added.
ListQueue(c) ==
  /\ pc[c] = "listQueue"
  /\ To(c, IF \E i \in upload_queue : SameUrl(c, i) THEN "save" ELSE "listCurrent")
  /\ UNCHANGED <<up, restarts, queueVars, AthenadUploadQueue, local, requests, live, cancelled>>

ListCurrent(c) ==
  /\ pc[c] = "listCurrent"
  /\ To(c, IF \E h \in Handlers : cur_upload_items[h] # NoItem /\ SameUrl(c, cur_upload_items[h])
             THEN "save" ELSE "add")
  /\ UNCHANGED <<up, restarts, queueVars, AthenadUploadQueue, local, requests, live, cancelled>>

Add(c) ==
  /\ pc[c] = "add"
  /\ upload_queue' = upload_queue \cup {item[c]} /\ live' = live \cup {item[c].id}
  /\ To(c, "save") /\ item' = [item EXCEPT ![c] = NoItem]
  /\ UNCHANGED <<up, restarts, cancelled_uploads, cur_upload_items, AthenadUploadQueue, snapshot, resave,
                 requests, cancelled>>

\* cancelUpload looks the id up among the queued items ...
FindToCancel(c) ==
  /\ up /\ pc[c] = "idle"
  /\ \E i \in upload_queue : item' = [item EXCEPT ![c] = i]
  /\ To(c, "cancel")
  /\ UNCHANGED <<up, restarts, queueVars, AthenadUploadQueue, snapshot, resave, requests, live, cancelled>>

\* ... and marks it; the saved queue keeps it.
Cancel(c) ==
  /\ pc[c] = "cancel"
  /\ cancelled_uploads' = cancelled_uploads \cup {item[c].id}
  /\ cancelled' = cancelled \cup {item[c].id}
  /\ To(c, "idle") /\ Forget(c)
  /\ UNCHANGED <<up, restarts, upload_queue, cur_upload_items, AthenadUploadQueue, requests, live>>

-----------------------------------------------------------------------------
\* The process or the device stops.
Stop ==
  /\ up /\ restarts < MaxRestarts
  /\ up' = FALSE /\ restarts' = restarts + 1
  /\ upload_queue' = {} /\ cancelled_uploads' = {}
  /\ cur_upload_items' = [h \in Handlers |-> NoItem]
  /\ pc' = [t \in Threads |-> "idle"] /\ item' = [t \in Threads |-> NoItem]
  /\ snapshot' = [t \in Threads |-> {}] /\ resave' = [t \in Threads |-> FALSE]
  /\ live' = {}
  /\ UNCHANGED <<AthenadUploadQueue, requests, cancelled>>

\* UploadQueueCache.initialize.
Initialize ==
  /\ ~up /\ up' = TRUE
  /\ upload_queue' = AthenadUploadQueue
  /\ live' = {i.id : i \in AthenadUploadQueue}
  /\ cancelled' = {}
  /\ UNCHANGED <<restarts, cancelled_uploads, cur_upload_items, AthenadUploadQueue, pc, local, requests>>

Save(t) == TakeSnapshot(t) \/ WriteSnapshot(t)
Attempt(h) == Success(h) \/ Fail(h) \/ Error(h)
Handle(h) == Take(h) \/ SetCurrent(h) \/ SkipCancelled(h) \/ Expire(h) \/ Metered(h) \/ Begin(h)
               \/ Attempt(h) \/ Abort(h) \/ Save(h)
Serve(c) == ListQueue(c) \/ ListCurrent(c) \/ Add(c) \/ Cancel(c) \/ Save(c)

UploadsNext ==
  \/ Stop \/ Initialize
  \/ \E h \in Handlers : Handle(h)
  \/ \E c \in Callers : Request(c) \/ FindToCancel(c) \/ Serve(c)

UploadsSpec == UploadsInit /\ [][UploadsNext]_uploadsVars

\* Threads are scheduled, the process is restarted, and the network is neither metered
\* nor interrupted for ever.
FairSpec ==
  /\ UploadsSpec /\ WF_uploadsVars(Initialize)
  /\ \A c \in Callers : WF_uploadsVars(Serve(c))
  /\ \A h \in Handlers : WF_uploadsVars(Handle(h)) /\ SF_uploadsVars(Begin(h)) /\ SF_uploadsVars(Attempt(h))

-----------------------------------------------------------------------------
\* Types.
UploadsTypeOK ==
  /\ up \in BOOLEAN /\ restarts \in 0..MaxRestarts /\ requests \in 0..MaxRequests
  /\ upload_queue \subseteq UploadItem /\ AthenadUploadQueue \subseteq UploadItem
  /\ cancelled_uploads \subseteq cancelled /\ cancelled \subseteq Ids
  /\ \A t \in Threads : item[t] \in UploadItem \cup {NoItem} /\ snapshot[t] \subseteq UploadItem
  /\ \A h \in Handlers : cur_upload_items[h] \in {NoItem, item[h]}

Holds(h, id) == pc[h] \in {"taken", "check", "uploading"} /\ item[h].id = id

\* However threads interleave and uploads fail, an accepted upload is in the queue or in
\* the hands of one handler until it is uploaded, cancelled or given up, and in no second
\* place: nothing is lost, and nothing is uploaded twice at once.
Accounted ==
  \A id \in Ids :
    Cardinality({i \in upload_queue : i.id = id}) + Cardinality({h \in Handlers : Holds(h, id)})
      = IF id \in live THEN 1 ELSE 0

\* Once cancelUpload has returned success, no upload of the item begins, whichever
\* handler had it and however often it is retried.
CancelHolds ==
  [][\A h \in Handlers : pc[h] = "check" /\ pc'[h] = "uploading" => item[h].id \notin cancelled]_uploadsVars

\* Every accepted upload comes to an end (of the at most MaxRequests there are): retries
\* are bounded, and an item put back for a metered network is tried in the end.
Settles == <>[](live = {})
=============================================================================

---------------------------- MODULE FeatureFlags ----------------------------
(***************************************************************************)
(* The feature-flag client (europilot/flags.py): threads of one process    *)
(* ask for flags, each refreshing them itself when the last fetch is old,  *)
(* and a cache file carries them over a restart.  The flags of one signed  *)
(* server response, kill switch included, are a version number.            *)
(***************************************************************************)
EXTENDS Integers

CONSTANTS
  Threads, Main,        \* the calling threads; Main runs get_flags first
  MaxVersion,           \* bound: versions the server publishes
  REFRESH_INTERVAL,
  TIMEOUT,              \* urlopen's timeout for each way
  MaxRestarts           \* bound: process restarts

ASSUME FlagsAssumption ==
  /\ Main \in Threads
  /\ MaxVersion \in Nat \ {0} /\ MaxRestarts \in Nat
  /\ REFRESH_INTERVAL \in Nat \ {0} /\ TIMEOUT \in Nat

None == 0                                \* no flags, no file
Torn == -1                               \* a file that is not JSON
MaxAge == REFRESH_INTERVAL + TIMEOUT + 1 \* ages saturate past every bound
Ages == 0..MaxAge
Older(a) == IF a = MaxAge THEN a ELSE a + 1
Never == -1                              \* age of a _last_fetch that lies in the future

VARIABLES
  server,         \* version the server publishes
  cache,          \* CACHE_PATH
  up, restarts,   \* the process runs; how often it was restarted
  flags,          \* ._flags, ._kill_switch_*
  last_fetch,     \* age of ._last_fetch on the monotonic clock
  current,        \* history: age of the server response behind `flags`
  failed,         \* history: time since a refresh failed or the process started
  thr             \* thread -> step, version and age of the response it holds

process == <<flags, last_fetch, current, failed>>
vars == <<server, cache, up, restarts, process, thr>>

Idle == [pc |-> "idle", ver |-> None, age |-> 0]
At(t, step) == thr' = [thr EXCEPT ![t].pc = step]

Init ==
  /\ server = 1 /\ cache = None /\ up = FALSE /\ restarts = 0
  /\ flags = None /\ last_fetch = 0 /\ current = MaxAge /\ failed = MaxAge
  /\ thr = [t \in Threads |-> Idle]

-----------------------------------------------------------------------------
\* The server publishes other flags.
Publish ==
  /\ server < MaxVersion /\ server' = server + 1
  /\ UNCHANGED <<cache, up, restarts, process, thr>>

\* _load_cache: the payload's `timestamp` is wall-clock time, ahead of any
\* monotonic reading; without a readable file _last_fetch stays 0.0, which is
\* as old as the monotonic clock.
LoadCache ==
  IF cache \notin {None, Torn}
    THEN flags' = cache /\ last_fetch' = Never
    ELSE flags' = None /\ last_fetch' \in Ages

\* get_flags: construct the client, then refresh.
Start ==
  /\ ~up /\ up' = TRUE
  /\ LoadCache
  /\ current' = MaxAge /\ failed' = 0
  /\ At(Main, "request")
  /\ UNCHANGED <<server, cache, restarts>>

\* The process or the device stops, wherever its threads are.
Stop ==
  /\ up /\ restarts < MaxRestarts
  /\ up' = FALSE /\ restarts' = restarts + 1
  /\ thr' = [t \in Threads |-> Idle]
  /\ UNCHANGED <<server, cache, process>>

\* Mutants: an interval one unit too long; the operands swapped.
MutStale(age) == age > REFRESH_INTERVAL + 1
MutNeverStale(age) == -age > REFRESH_INTERVAL

\* _maybe_refresh's condition.
Stale(age) == age > REFRESH_INTERVAL

\* A caller of is_enabled, get or is_kill_switch_active.
Call(t) ==
  /\ up /\ thr[t].pc = "idle"
  /\ At(t, IF Stale(last_fetch) THEN "request" ELSE "read")
  /\ UNCHANGED <<server, cache, up, restarts, process>>

\* Mutant: a response that does not verify is taken for flags.
MutAnswer(t) ==
  /\ thr[t].pc = "request"
  /\ thr' = [thr EXCEPT ![t] = [pc |-> "reply", ver |-> None, age |-> 0]]
  /\ UNCHANGED <<server, cache, up, restarts, process>>

\* The server answers refresh's request.
Answer(t) ==
  /\ thr[t].pc = "request"
  /\ thr' = [thr EXCEPT ![t] = [pc |-> "reply", ver |-> server, age |-> 0]]
  /\ UNCHANGED <<server, cache, up, restarts, process>>

\* The request fails or the response does not verify; a malformed signature
\* raises through the caller.
Fail(t) ==
  /\ thr[t].pc \in {"request", "reply"} /\ failed' = 0
  /\ \/ At(t, "read")
     \/ thr[t].pc = "reply" /\ thr' = [thr EXCEPT ![t] = Idle]
  /\ UNCHANGED <<server, cache, up, restarts, flags, last_fetch, current>>

\* refresh installs the response under the lock.
Install(t) ==
  /\ thr[t].pc = "reply"
  /\ flags' = thr[t].ver /\ current' = thr[t].age /\ last_fetch' = 0
  /\ At(t, "open")
  /\ UNCHANGED <<server, cache, up, restarts, failed>>

\* _save_cache, outside the lock: write_text truncates the file ...
OpenCache(t) ==
  /\ thr[t].pc = "open"
  /\ cache' = Torn /\ At(t, "write")
  /\ UNCHANGED <<server, up, restarts, process>>

\* ... and writes it; over what another thread wrote meanwhile, the longer text
\* may stick out.
WriteCache(t) ==
  /\ thr[t].pc = "write"
  /\ cache' \in {thr[t].ver} \cup (IF cache = Torn THEN {} ELSE {Torn})
  /\ At(t, "read")
  /\ UNCHANGED <<server, up, restarts, process>>

\* Any error while saving is swallowed.
SaveFails(t) ==
  /\ thr[t].pc \in {"open", "write"} /\ At(t, "read")
  /\ UNCHANGED <<server, cache, up, restarts, process>>

\* The caller reads the flags under the lock and returns.
ReturnFlags(t) ==
  /\ thr[t].pc = "read"
  /\ thr' = [thr EXCEPT ![t] = Idle]
  /\ UNCHANGED <<server, cache, up, restarts, process>>

\* One unit of time.  Only requests take time: at most TIMEOUT to the answer and
\* as long again to receive it.
Tick ==
  /\ up
  /\ \A t \in Threads : \/ thr[t].pc = "idle"
                        \/ thr[t].pc \in {"request", "reply"} /\ thr[t].age < TIMEOUT
  /\ last_fetch' = IF last_fetch = Never THEN Never ELSE Older(last_fetch)
  /\ current' = Older(current) /\ failed' = Older(failed)
  /\ thr' = [t \in Threads |-> IF thr[t].pc = "idle" THEN Idle
                                                     ELSE [thr[t] EXCEPT !.age = @ + 1]]
  /\ UNCHANGED <<server, cache, up, restarts, flags>>

Step(t) == Answer(t) \/ Fail(t) \/ Install(t) \/ OpenCache(t) \/ WriteCache(t) \/ SaveFails(t)
             \/ ReturnFlags(t)

Next ==
  \/ Publish \/ Start \/ Stop \/ Tick
  \/ \E t \in Threads : Call(t) \/ Step(t)

Spec == Init /\ [][Next]_vars

\* The last call under way returns.
ReturnLast(t) == ReturnFlags(t) /\ \A u \in Threads \ {t} : thr[u].pc = "idle"

\* The process is started again, threads are scheduled and keep asking but not
\* back to back, so that time passes; and refreshes do not fail for ever.
FairSpec ==
  /\ Spec
  /\ WF_vars(Start) /\ SF_vars(Tick)
  /\ \A t \in Threads : WF_vars(Step(t)) /\ SF_vars(Call(t)) /\ SF_vars(Answer(t))
                        /\ SF_vars(Install(t)) /\ SF_vars(ReturnLast(t))

-----------------------------------------------------------------------------
\* Types, and a response in hand is one the server published.
TypeOK ==
  /\ server \in 1..MaxVersion /\ cache \in {Torn} \cup 0..server
  /\ up \in BOOLEAN /\ restarts \in 0..MaxRestarts
  /\ flags \in 0..server /\ last_fetch \in Ages \cup {Never}
  /\ current \in Ages /\ failed \in Ages
  /\ \A t \in Threads :
       /\ thr[t].pc \in {"idle", "request", "reply", "open", "write", "read"}
       /\ thr[t].ver \in 0..server /\ thr[t].age \in 0..TIMEOUT
       /\ thr[t].pc \in {"reply", "open", "write"} => thr[t].ver # None

\* The time the flags a caller is about to read are behind: they come from a
\* server response at most REFRESH_INTERVAL old, plus the time it was under way,
\* or a refresh failed (or the process started) no longer than that ago.
Current == current <= REFRESH_INTERVAL + TIMEOUT \/ failed <= REFRESH_INTERVAL

\* REFRESH_INTERVAL, "300 # seconds": whatever the other threads fetch and
\* install meanwhile, no caller reads flags older than _maybe_refresh allows.
AnswersAreCurrent == \A t \in Threads : thr[t].pc = "read" => Current

\* The same while _last_fetch is not the timestamp of the cache file.
FetchedAnswersAreCurrent == last_fetch # Never => AnswersAreCurrent

\* The flags (the kill switch) reach the device in the end, although an older
\* response may be installed after a newer one, or the process runs on the cache
\* file's timestamp and never asks again.
Converges == <>[](flags = server \/ last_fetch = Never)
=============================================================================

------------------------- MODULE FeatureFlagsProofs -------------------------
(***************************************************************************)
(* FetchedAnswersAreCurrent for any threads, interval, timeout and bounds. *)
(***************************************************************************)
EXTENDS FeatureFlags, TLAPS

Steps == {"idle", "request", "reply", "open", "write", "read"}

\* The types the argument needs.
Typed ==
  /\ last_fetch \in Ages \cup {Never} /\ current \in Ages /\ failed \in Ages
  /\ thr \in [Threads -> [pc : Steps, ver : Int, age : 0..TIMEOUT]]
  /\ server \in Nat

\* The monotonic clock never hides an age: as long as _last_fetch was not read
\* from the cache, the flags are hardly older than it, or a refresh failed since.
FetchBoundsAge ==
  up /\ last_fetch # Never => current <= last_fetch + TIMEOUT \/ failed <= last_fetch

\* No time passes between the decision not to refresh, or the refresh, and the read.
DecidedIsCurrent ==
  \A t \in Threads :
    thr[t].pc \in {"open", "write", "read"} /\ last_fetch # Never => Current

\* A process that is down has no calls under way.
DownIsIdle == ~up => \A t \in Threads : thr[t].pc = "idle"

Inv == Typed /\ FetchBoundsAge /\ DecidedIsCurrent /\ DownIsIdle

LEMMA InitInv == Init => Inv
BY FlagsAssumption DEF Init, Inv, Typed, FetchBoundsAge, DecidedIsCurrent, DownIsIdle, Idle,
  Steps, Ages, MaxAge, None, Never

\* A step of one thread that only moves it along, leaving every age alone, keeps
\* the invariant when the thread may read there.
LEMMA ThreadMoves ==
  ASSUME Inv, up, UNCHANGED <<up, last_fetch, current, failed>>, server' \in Nat,
         NEW t \in Threads, NEW r \in [pc : Steps, ver : Int, age : 0..TIMEOUT],
         thr' = [thr EXCEPT ![t] = r],
         r.pc \in {"open", "write", "read"} /\ last_fetch # Never => Current
  PROVE  Inv'
<1>1. Typed' BY DEF Inv, Typed
<1>2. FetchBoundsAge' BY DEF Inv, FetchBoundsAge
<1>3. DecidedIsCurrent' BY DEF Inv, Typed, DecidedIsCurrent, Current
<1>4. DownIsIdle' BY DEF Inv, DownIsIdle
<1> QED BY <1>1, <1>2, <1>3, <1>4 DEF Inv

LEMMA NextInv == Inv /\ [Next]_vars => Inv'
<1> SUFFICES ASSUME Inv, [Next]_vars PROVE Inv'
  OBVIOUS
<1> USE FlagsAssumption
<1>1. CASE UNCHANGED vars
  BY <1>1 DEF Inv, Typed, FetchBoundsAge, DecidedIsCurrent, DownIsIdle, Current, vars, process
<1>2. CASE Publish
  BY <1>2 DEF Inv, Typed, FetchBoundsAge, DecidedIsCurrent, DownIsIdle, Current, Publish, process
<1>3. CASE Start
  <2>1. /\ last_fetch' \in Ages \cup {Never} /\ current' \in Ages /\ failed' = 0
        /\ thr' = [thr EXCEPT ![Main].pc = "request"] /\ up' /\ server' = server
    BY <1>3 DEF Start, LoadCache, At, Ages, MaxAge, Never
  <2>2. \A t \in Threads : thr'[t].pc \in {"idle", "request"}
    BY <1>3, <2>1 DEF Inv, Typed, DownIsIdle, Start
  <2>3. Typed' BY <2>1 DEF Inv, Typed, Steps, Ages, MaxAge
  <2>4. FetchBoundsAge' BY <2>1 DEF FetchBoundsAge, Ages, MaxAge, Never
  <2>5. DecidedIsCurrent' BY <2>2 DEF DecidedIsCurrent
  <2> QED BY <2>1, <2>3, <2>4, <2>5 DEF Inv, DownIsIdle
<1>4. CASE Stop
  <2>1. \A t \in Threads : thr'[t] = Idle BY <1>4 DEF Stop
  <2>2. Typed' BY <1>4, <2>1 DEF Inv, Typed, Stop, process, Idle, Steps, None
  <2>3. FetchBoundsAge' BY <1>4 DEF Inv, FetchBoundsAge, Stop, process
  <2> QED BY <2>1, <2>2, <2>3 DEF Inv, DecidedIsCurrent, DownIsIdle, Idle
<1>5. CASE Tick
  <2>1. Typed'
    <3>1. last_fetch' \in Ages \cup {Never} /\ current' \in Ages /\ failed' \in Ages
      <4>1. \A a \in Ages : Older(a) \in Ages BY DEF Older, Ages, MaxAge
      <4> QED BY <1>5, <4>1 DEF Inv, Typed, Tick
    <3>2. thr' \in [Threads -> [pc : Steps, ver : Int, age : 0..TIMEOUT]]
      BY <1>5 DEF Inv, Typed, Tick, Idle, Steps, None
    <3> QED BY <1>5, <3>1, <3>2 DEF Inv, Typed, Tick
  <2>2. FetchBoundsAge'
    <3>1. up /\ last_fetch' = (IF last_fetch = Never THEN Never ELSE Older(last_fetch))
          /\ current' = Older(current) /\ failed' = Older(failed)
      BY <1>5 DEF Tick
    <3>2. last_fetch # Never => current <= last_fetch + TIMEOUT \/ failed <= last_fetch
      BY <3>1 DEF Inv, FetchBoundsAge
    <3>3. last_fetch \in 0..MaxAge \cup {-1} /\ current \in 0..MaxAge /\ failed \in 0..MaxAge
          /\ MaxAge \in Nat
      BY DEF Inv, Typed, Ages, Never, MaxAge
    <3> QED BY <3>1, <3>2, <3>3 DEF FetchBoundsAge, Older, Never
  <2>3. \A t \in Threads : thr'[t].pc \in {"idle", "request", "reply"}
    BY <1>5 DEF Inv, Typed, Tick, Idle
  <2> QED BY <1>5, <2>1, <2>2, <2>3 DEF Inv, DecidedIsCurrent, DownIsIdle, Tick
<1>6. ASSUME NEW t \in Threads, Call(t) PROVE Inv'
  <2>1. PICK step \in {"request", "read"} :
          thr' = [thr EXCEPT ![t].pc = step] /\ (step = "read" => ~Stale(last_fetch))
    BY <1>6 DEF Call, At
  <2>2. step = "read" /\ last_fetch # Never => Current
    BY <1>6, <2>1 DEF Call, Inv, Typed, FetchBoundsAge, Stale, Current, Ages, MaxAge, Never
  <2> DEFINE r == [thr[t] EXCEPT !.pc = step]
  <2>3. r \in [pc : Steps, ver : Int, age : 0..TIMEOUT] /\ r.pc = step
        /\ thr' = [thr EXCEPT ![t] = r]
    BY <2>1 DEF Inv, Typed, Steps
  <2>4. up /\ UNCHANGED <<up, last_fetch, current, failed, server>>
    BY <1>6 DEF Call, process
  <2> QED BY <2>2, <2>3, <2>4, ThreadMoves DEF Inv, Typed
<1>7. ASSUME NEW t \in Threads, Step(t) PROVE Inv'
  <2>0. thr[t].pc # "idle" /\ up /\ up'
    BY <1>7 DEF Inv, DownIsIdle, Step, Answer, Fail, Install, OpenCache, WriteCache, SaveFails,
      ReturnFlags
  <2>1. CASE Answer(t)
    <3> DEFINE r == [pc |-> "reply", ver |-> server, age |-> 0]
    <3>1. r \in [pc : Steps, ver : Int, age : 0..TIMEOUT]
      BY DEF Inv, Typed, Steps
    <3>2. thr' = [thr EXCEPT ![t] = r] /\ UNCHANGED <<up, last_fetch, current, failed, server>>
      BY <2>1 DEF Answer, process
    <3> QED BY <2>0, <3>1, <3>2, ThreadMoves DEF Inv, Typed
  <2>2. CASE Fail(t)
    <3>1. PICK r \in [pc : Steps, ver : Int, age : 0..TIMEOUT] : thr' = [thr EXCEPT ![t] = r]
      <4>1. CASE thr' = [thr EXCEPT ![t].pc = "read"]
        <5>1. [thr[t] EXCEPT !.pc = "read"] \in [pc : Steps, ver : Int, age : 0..TIMEOUT]
          BY DEF Inv, Typed, Steps
        <5> QED BY <4>1, <5>1
      <4>2. CASE thr' = [thr EXCEPT ![t] = Idle]
        <5>1. Idle \in [pc : Steps, ver : Int, age : 0..TIMEOUT] BY DEF Idle, Steps, None
        <5> QED BY <4>2, <5>1
      <4> QED BY <2>2, <4>1, <4>2 DEF Fail, At
    <3>2. failed' = 0 /\ UNCHANGED <<last_fetch, current, server>> BY <2>2 DEF Fail
    <3>3. Typed' BY <3>1, <3>2 DEF Inv, Typed, Ages, MaxAge
    <3>4. FetchBoundsAge' BY <3>2 DEF Inv, Typed, FetchBoundsAge, Ages, Never
    <3>5. DecidedIsCurrent' BY <3>2 DEF DecidedIsCurrent, Current
    <3> QED BY <2>0, <3>3, <3>4, <3>5 DEF Inv, DownIsIdle
  <2>3. CASE Install(t)
    <3>1. current' \in 0..TIMEOUT /\ last_fetch' = 0 /\ UNCHANGED <<failed, server>>
      BY <2>3 DEF Install, Inv, Typed
    <3>2. thr' \in [Threads -> [pc : Steps, ver : Int, age : 0..TIMEOUT]]
      BY <2>3 DEF Install, At, Inv, Typed, Steps
    <3>3. Typed' BY <3>1, <3>2 DEF Inv, Typed, Ages, MaxAge
    <3>4. FetchBoundsAge' BY <3>1 DEF FetchBoundsAge
    <3>5. DecidedIsCurrent' BY <3>1 DEF DecidedIsCurrent, Current
    <3> QED BY <2>0, <3>3, <3>4, <3>5 DEF Inv, DownIsIdle
  <2>4. CASE OpenCache(t) \/ WriteCache(t) \/ SaveFails(t)
    <3>1. PICK step \in {"write", "read"} : thr' = [thr EXCEPT ![t].pc = step]
      BY <2>4 DEF OpenCache, WriteCache, SaveFails, At
    <3>2. thr[t].pc \in {"open", "write"} /\ UNCHANGED <<up, last_fetch, current, failed, server>>
      BY <2>4 DEF OpenCache, WriteCache, SaveFails, process
    <3> DEFINE r == [thr[t] EXCEPT !.pc = step]
    <3>3. r \in [pc : Steps, ver : Int, age : 0..TIMEOUT] /\ thr' = [thr EXCEPT ![t] = r]
      BY <3>1 DEF Inv, Typed, Steps
    <3>4. last_fetch # Never => Current BY <3>2 DEF Inv, DecidedIsCurrent
    <3> QED BY <2>0, <3>2, <3>3, <3>4, ThreadMoves DEF Inv, Typed
  <2>5. CASE ReturnFlags(t)
    <3>1. Idle \in [pc : Steps, ver : Int, age : 0..TIMEOUT] /\ Idle.pc = "idle"
      BY DEF Idle, Steps, None
    <3>2. thr' = [thr EXCEPT ![t] = Idle] /\ UNCHANGED <<up, last_fetch, current, failed, server>>
      BY <2>5 DEF ReturnFlags, process
    <3> QED BY <2>0, <3>1, <3>2, ThreadMoves DEF Inv, Typed
  <2> QED BY <1>7, <2>1, <2>2, <2>3, <2>4, <2>5 DEF Step
<1> QED BY <1>1, <1>2, <1>3, <1>4, <1>5, <1>6, <1>7 DEF Next

\* While _last_fetch is a reading of the monotonic clock, no caller of the flag
\* client reads flags older than REFRESH_INTERVAL and one response time, unless a
\* refresh failed no longer than REFRESH_INTERVAL ago.
THEOREM CurrentTheorem == Spec => []FetchedAnswersAreCurrent
<1>1. Inv => FetchedAnswersAreCurrent
  BY DEF Inv, DecidedIsCurrent, FetchedAnswersAreCurrent, AnswersAreCurrent
<1> QED BY <1>1, InitInv, NextInv, PTL DEF Spec

(***************************************************************************)
(* The versions: whatever threads, cache file and restarts pass on was     *)
(* once published, and only a verified response is installed or saved.     *)
(***************************************************************************)
Calls == [pc : Steps, ver : 0..server, age : 0..TIMEOUT]
VersionsOK ==
  /\ TypeOK
  /\ thr \in [Threads -> Calls]

\* Fewer versions are fewer calls.
LEMMA OlderCalls ==
  ASSUME VersionsOK, server' = server + 1, UNCHANGED thr PROVE thr' \in [Threads -> Calls']
BY DEF VersionsOK, TypeOK, Calls, Steps

\* A step of one thread's call.
LEMMA CallStep ==
  ASSUME VersionsOK, NEW t \in Threads, NEW c \in Calls, thr' = [thr EXCEPT ![t] = c],
         c.pc \in {"reply", "open", "write"} => c.ver # None,
         UNCHANGED <<server, up, restarts>>,
         cache' \in {Torn} \cup 0..server, flags' \in 0..server,
         last_fetch' \in Ages \cup {Never}, current' \in Ages, failed' \in Ages
  PROVE  VersionsOK'
BY DEF VersionsOK, TypeOK, Calls, Steps

LEMMA NextVersions == VersionsOK /\ [Next]_vars => VersionsOK'
<1> SUFFICES ASSUME VersionsOK, [Next]_vars PROVE VersionsOK' OBVIOUS
<1>0. /\ MaxVersion \in Nat \ {0} /\ MaxRestarts \in Nat /\ TIMEOUT \in Nat
      /\ Main \in Threads /\ REFRESH_INTERVAL \in Nat /\ 0 \in Ages /\ MaxAge \in Ages
      /\ \A a \in Ages : Older(a) \in Ages
  BY FlagsAssumption DEF FlagsAssumption, Ages, MaxAge, Older
<1>1. CASE Publish
  <2>1. server' = server + 1 /\ server' \in 1..MaxVersion
    BY <1>0, <1>1 DEF Publish, VersionsOK, TypeOK
  <2>2. UNCHANGED <<cache, up, restarts, flags, last_fetch, current, failed, thr>>
    BY <1>1 DEF Publish, process
  <2>3. thr' \in [Threads -> Calls'] BY <2>1, <2>2, OlderCalls
  <2> QED BY <1>0, <2>1, <2>2, <2>3 DEF VersionsOK, TypeOK
<1>2. CASE Start
  <2>1. flags' \in 0..server /\ last_fetch' \in Ages \cup {Never}
    BY <1>2 DEF Start, LoadCache, VersionsOK, TypeOK, None, Torn
  <2>2. thr' = [thr EXCEPT ![Main] = [thr[Main] EXCEPT !.pc = "request"]]
    BY <1>2 DEF Start, At
  <2>3. [thr[Main] EXCEPT !.pc = "request"] \in Calls BY <1>0 DEF VersionsOK, Calls, Steps
  <2>4. thr' \in [Threads -> Calls] BY <2>2, <2>3 DEF VersionsOK
  <2>5. \A u \in Threads : thr'[u].pc \in {"reply", "open", "write"} => thr'[u].ver # None
    BY <1>0, <2>2 DEF VersionsOK, TypeOK, Calls
  <2>6. up' \in BOOLEAN BY <1>2, Zenon DEF Start
  <2>7. current' \in Ages /\ failed' \in Ages /\ UNCHANGED <<server, cache, restarts>>
    BY <1>0, <1>2 DEF Start
  <2> QED BY <2>1, <2>4, <2>5, <2>6, <2>7 DEF VersionsOK, TypeOK, Calls, Steps
<1>3. CASE Stop
  <2>1. up' \in BOOLEAN BY <1>3, Zenon DEF Stop
  <2>2. restarts' \in 0..MaxRestarts BY <1>0, <1>3 DEF Stop, VersionsOK, TypeOK
  <2>3. thr' \in [Threads -> Calls] /\ \A u \in Threads : thr'[u] = Idle
    BY <1>0, <1>3 DEF Stop, Idle, Calls, Steps, None, VersionsOK, TypeOK
  <2> QED BY <1>3, <2>1, <2>2, <2>3 DEF Stop, process, VersionsOK, TypeOK, Calls, Idle
<1>4. CASE Tick
  <2>1. /\ last_fetch' \in Ages \cup {Never} /\ current' \in Ages /\ failed' \in Ages
    BY <1>0, <1>4 DEF Tick, VersionsOK, TypeOK
  <2>2. ASSUME NEW u \in Threads
        PROVE  /\ thr'[u] \in Calls
               /\ thr'[u].pc \in {"reply", "open", "write"} => thr'[u].ver # None
    <3>1. CASE thr[u].pc = "idle"
      BY <1>0, <1>4, <3>1 DEF Tick, Idle, Calls, Steps, None, VersionsOK, TypeOK
    <3>2. CASE thr[u].pc # "idle"
      <4>1. thr[u].age + 1 \in 0..TIMEOUT /\ thr[u].pc \in Steps /\ thr[u].ver \in 0..server
        BY <1>0, <1>4, <3>2 DEF Tick, VersionsOK, TypeOK, Calls
      <4>2. thr'[u] = [thr[u] EXCEPT !.age = thr[u].age + 1] BY <1>4, <3>2 DEF Tick
      <4> QED BY <4>1, <4>2 DEF VersionsOK, TypeOK, Calls
    <3> QED BY <3>1, <3>2
  <2>3. thr' \in [Threads -> Calls] BY <1>4, <2>2 DEF Tick
  <2> QED BY <1>4, <2>1, <2>2, <2>3 DEF Tick, VersionsOK, TypeOK, Calls, Steps
<1>5. ASSUME NEW t \in Threads, Call(t) \/ Step(t) PROVE VersionsOK'
  <2> DEFINE to(step) == [thr[t] EXCEPT !.pc = step]
  <2>1. /\ thr[t] \in Calls /\ server \in 1..MaxVersion
        /\ thr[t].pc \in {"reply", "open", "write"} => thr[t].ver # None
        /\ cache \in {Torn} \cup 0..server /\ flags \in 0..server
        /\ last_fetch \in Ages \cup {Never} /\ current \in Ages /\ failed \in Ages
    BY <1>5 DEF VersionsOK, TypeOK
  <2>2. \A step \in Steps : /\ to(step) \in Calls /\ to(step).pc = step
                            /\ to(step).ver = thr[t].ver /\ to(step).age = thr[t].age
    BY <2>1 DEF Calls
  <2>3. Idle \in Calls /\ Idle.pc = "idle"
    BY <1>0, <2>1 DEF Idle, Calls, Steps, None
  <2> HIDE DEF to
  <2>4. CASE Call(t)
    <3>1. PICK step \in {"request", "read"} : thr' = [thr EXCEPT ![t] = to(step)]
      BY <2>4 DEF Call, At, to
    <3> QED BY <2>1, <2>2, <2>4, <3>1, CallStep DEF Call, process, Steps
  <2>5. CASE Answer(t)
    <3> DEFINE reply == [pc |-> "reply", ver |-> server, age |-> 0]
    <3>1. reply \in Calls /\ reply.ver # None
      BY <1>0, <2>1 DEF Calls, Steps, None
    <3>2. thr' = [thr EXCEPT ![t] = reply] BY <2>5 DEF Answer
    <3> HIDE DEF reply
    <3> QED BY <2>1, <2>5, <3>1, <3>2, CallStep DEF Answer, process
  <2>6. CASE Fail(t)
    <3>1. thr' = [thr EXCEPT ![t] = to("read")] \/ thr' = [thr EXCEPT ![t] = Idle]
      BY <2>6 DEF Fail, At, to
    <3> QED BY <1>0, <2>1, <2>2, <2>3, <2>6, <3>1, CallStep DEF Fail, Steps
  <2>7. CASE Install(t)
    <3>1. thr' = [thr EXCEPT ![t] = to("open")] BY <2>7 DEF Install, At, to
    <3>2. thr[t].ver # None /\ thr[t].ver \in 0..server /\ thr[t].age \in Ages
      BY <1>0, <2>1, <2>7 DEF Install, Calls, Ages, MaxAge
    <3> QED BY <1>0, <2>1, <2>2, <2>7, <3>1, <3>2, CallStep DEF Install, Steps
  <2>8. CASE OpenCache(t)
    <3>1. thr' = [thr EXCEPT ![t] = to("write")] BY <2>8 DEF OpenCache, At, to
    <3> QED BY <2>1, <2>2, <2>8, <3>1, CallStep DEF OpenCache, process, Steps
  <2>9. CASE WriteCache(t)
    <3>1. thr' = [thr EXCEPT ![t] = to("read")] BY <2>9 DEF WriteCache, At, to
    <3>2. cache' \in {Torn} \cup 0..server BY <2>1, <2>9 DEF WriteCache, Calls
    <3> QED BY <2>1, <2>2, <2>9, <3>1, <3>2, CallStep DEF WriteCache, process, Steps
  <2>10. CASE SaveFails(t)
    <3>1. thr' = [thr EXCEPT ![t] = to("read")] BY <2>10 DEF SaveFails, At, to
    <3> QED BY <2>1, <2>2, <2>10, <3>1, CallStep DEF SaveFails, process, Steps
  <2>11. CASE ReturnFlags(t)
    <3>1. thr' = [thr EXCEPT ![t] = Idle] BY <2>11 DEF ReturnFlags
    <3> QED BY <2>1, <2>3, <2>11, <3>1, CallStep DEF ReturnFlags, process
  <2> QED BY <1>5, <2>4, <2>5, <2>6, <2>7, <2>8, <2>9, <2>10, <2>11 DEF Step
<1>6. CASE UNCHANGED vars
  BY <1>6 DEF vars, process, VersionsOK, TypeOK, Calls
<1> QED BY <1>1, <1>2, <1>3, <1>4, <1>5, <1>6 DEF Next

\* No thread, no file and no restart makes up flags: what is in use, saved or
\* in hand is a version the server published, and an unverified response is none.
THEOREM TypeCorrect == Spec => []TypeOK
<1>1. ASSUME Init PROVE VersionsOK
  <2>1. up \in BOOLEAN BY <1>1, Zenon DEF Init
  <2>2. Idle \in Calls /\ thr \in [Threads -> Calls] /\ \A t \in Threads : thr[t] = Idle
    BY <1>1, FlagsAssumption DEF Init, Calls, Steps, Idle, None
  <2>3. /\ server \in 1..MaxVersion /\ cache \in {Torn} \cup 0..server /\ restarts \in 0..MaxRestarts
        /\ flags \in 0..server /\ last_fetch \in Ages \cup {Never} /\ current \in Ages /\ failed \in Ages
    BY <1>1, FlagsAssumption DEF Init, None, Ages, MaxAge
  <2> QED BY <2>1, <2>2, <2>3 DEF VersionsOK, TypeOK, Calls, Steps, Idle
<1>2. VersionsOK => TypeOK BY DEF VersionsOK
<1> QED BY <1>1, <1>2, NextVersions, PTL DEF Spec
=============================================================================

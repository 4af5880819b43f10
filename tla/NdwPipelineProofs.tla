-------------------------- MODULE NdwPipelineProofs -------------------------
(***************************************************************************)
(* The NDW pipeline for every road, tile size, padding, feed and timeout:  *)
(* matches are complete and sign states never go back.                     *)
(***************************************************************************)
EXTENDS NdwPipeline, TLAPS

\* The inductive invariant.  The versions in the system are ordered along the
\* path they take: snapshot, then the answer under way, then the store, then
\* NDW; a store or an answer may also be empty.
Threads == [tile : TilesOfRoad, answered : BOOLEAN, ver : Versions, data : Ages]
Typed ==
  /\ ndw \in Versions
  /\ store \in [ver : Versions, age : Ages]
  /\ threads \subseteq Threads
  /\ snapshot \in [tile : TilesOfRoad \cup {0}, ver : Versions, age : Ages, data : Ages]
  /\ refreshing \in BOOLEAN
  /\ gps \in Road
OneThread ==
  /\ refreshing = FALSE => threads = {}
  /\ \A a, b \in threads : a = b
Ordered ==
  /\ snapshot.ver <= ndw /\ store.ver <= ndw
  /\ store.ver = 0 \/ snapshot.ver <= store.ver
  /\ \A th \in threads :
       /\ th.ver <= ndw
       /\ th.ver = 0 \/ snapshot.ver <= th.ver
       /\ store.ver = 0 \/ th.ver <= store.ver
NInv == Typed /\ OneThread /\ Ordered

LEMMA OlderType == \A a \in Ages : Older(a) \in Ages
BY NdwAssumption DEF Ages, Older

LEMMA NInit == Init => NInv
<1> SUFFICES ASSUME Init PROVE NInv
  OBVIOUS
<1> USE NdwAssumption
<1>1. ndw = 1 /\ store = [ver |-> 0, age |-> 0] /\ threads = {} /\ gps \in Road
      /\ snapshot = [tile |-> 0, ver |-> 0, age |-> 0, data |-> 0]
  BY DEF Init
<1>2. refreshing = FALSE
  BY Zenon DEF Init
<1>3. ndw \in Versions /\ 0 \in Versions /\ 0 \in Ages
  BY <1>1 DEF Versions, Ages
<1>4. refreshing \in BOOLEAN
  BY <1>2, Zenon
<1>5. Typed
  BY <1>1, <1>3, <1>4 DEF Typed
<1> QED BY <1>1, <1>5 DEF NInv, OneThread, Ordered

\* A step that leaves the gateway, the snapshot and the threads alone.
LEMMA DaemonStep ==
  ASSUME NInv, UNCHANGED <<ndw, store, threads, refreshing, snapshot>>, gps' \in Road
  PROVE  NInv'
BY DEF NInv, Typed, OneThread, Ordered

\* An answer takes the place of its request.
LEMMA AnswerStep ==
  ASSUME NInv, NEW th \in threads, NEW v, NEW d \in Ages,
         v = 0 \/ v = store.ver,
         threads' = (threads \ {th}) \cup
           {[tile |-> th.tile, answered |-> TRUE, ver |-> v, data |-> d]},
         UNCHANGED <<ndw, store, refreshing, snapshot, gps>>
  PROVE  NInv'
<1> USE NdwAssumption
<1> DEFINE new == [tile |-> th.tile, answered |-> TRUE, ver |-> v, data |-> d]
<1>1. v \in Versions
  BY DEF NInv, Typed, Versions
<1>2. new \in Threads
  BY <1>1 DEF NInv, Typed, Threads
<1>3. threads' = {new}
  BY DEF NInv, OneThread
<1>4. Typed'
  BY <1>2, <1>3 DEF NInv, Typed
<1>5. OneThread'
  BY <1>3 DEF NInv, OneThread
<1>6. v <= ndw /\ (v = 0 \/ snapshot.ver <= v) /\ (store.ver = 0 \/ v <= store.ver)
  BY DEF NInv, Ordered, Typed, Versions
<1>7. Ordered'
  BY <1>3, <1>6 DEF NInv, Ordered
<1> QED BY <1>4, <1>5, <1>7 DEF NInv

LEMMA StepKeepsNInv ==
  ASSUME NInv, [Next]_vars
  PROVE  NInv'
<1> USE NdwAssumption
<1>1. CASE Ndw
  <2>1. ndw < MaxVersion /\ ndw' = ndw + 1
        /\ UNCHANGED <<store, threads, refreshing, snapshot, gps>>
    BY <1>1 DEF Ndw, device, daemon
  <2>2. Typed'
    BY <2>1 DEF NInv, Typed, Versions
  <2>3. Ordered'
    BY <2>1 DEF NInv, Typed, Ordered, Versions, Threads
  <2> QED BY <2>1, <2>2, <2>3 DEF NInv, OneThread
<1>2. CASE StoreRefresh
  BY <1>2 DEF NInv, Typed, OneThread, Ordered, StoreRefresh, device, daemon, Versions, Ages
<1>3. CASE StoreRestart
  BY <1>3 DEF NInv, Typed, OneThread, Ordered, StoreRestart, device, daemon, Versions, Ages
<1>4. CASE Answer
  <2>1. PICK th \in threads :
          threads' = (threads \ {th}) \cup
            {[tile |-> th.tile, answered |-> TRUE, ver |-> store.ver, data |-> store.age]}
    BY <1>4 DEF Answer
  <2>2. UNCHANGED <<ndw, store, refreshing, snapshot, gps>> /\ store.age \in Ages
    BY <1>4 DEF Answer, daemon, NInv, Typed
  <2> QED BY <2>1, <2>2, AnswerStep
<1>5. CASE AnswerFails
  <2>1. PICK th \in threads :
          threads' = (threads \ {th}) \cup
            {[tile |-> th.tile, answered |-> TRUE, ver |-> 0, data |-> 0]}
    BY <1>5 DEF AnswerFails
  <2>2. UNCHANGED <<ndw, store, refreshing, snapshot, gps>> /\ 0 \in Ages
    BY <1>5 DEF AnswerFails, daemon, Ages
  <2> QED BY <2>1, <2>2, AnswerStep
<1>6. CASE Deliver
  <2>1. PICK th \in threads :
          /\ threads' = threads \ {th} /\ refreshing' = FALSE
          /\ snapshot' = IF th.ver # 0
                           THEN [tile |-> th.tile, ver |-> th.ver, age |-> 0, data |-> th.data]
                           ELSE snapshot
          /\ UNCHANGED <<ndw, store, gps>>
    BY <1>6 DEF Deliver, daemon
  <2>2. threads' = {}
    BY <2>1 DEF NInv, OneThread
  <2>3. th \in Threads
    BY DEF NInv, Typed
  <2>4. Typed'
    <3>1. 0 \in Ages /\ th.tile \in TilesOfRoad /\ th.ver \in Versions /\ th.data \in Ages
      BY <2>3 DEF Threads, Ages
    <3>2. snapshot' \in [tile : TilesOfRoad \cup {0}, ver : Versions, age : Ages, data : Ages]
      BY <2>1, <3>1 DEF NInv, Typed
    <3>3. refreshing' \in BOOLEAN
      BY <2>1, Zenon
    <3> QED BY <2>1, <2>2, <3>2, <3>3 DEF NInv, Typed
  <2>5. Ordered'
    BY <2>1, <2>2, <2>3 DEF NInv, Ordered, Threads
  <2> QED BY <2>2, <2>4, <2>5 DEF NInv, OneThread
<1>7. CASE Tick
  <2>1. /\ store' = [store EXCEPT !.age = Older(store.age)]
        /\ snapshot' = [snapshot EXCEPT !.age = Older(snapshot.age),
                                        !.data = Older(snapshot.data)]
        /\ threads' = {[th EXCEPT !.data = Older(th.data)] : th \in threads}
        /\ UNCHANGED <<ndw, refreshing, gps>>
    BY <1>7 DEF Tick
  <2>2. \A th \in threads : [th EXCEPT !.data = Older(th.data)] \in Threads
                            /\ [th EXCEPT !.data = Older(th.data)].ver = th.ver
    BY OlderType DEF NInv, Typed, Threads
  <2>3. store'.ver = store.ver /\ snapshot'.ver = snapshot.ver
    BY <2>1 DEF NInv, Typed
  <2>4. Typed'
    BY <2>1, <2>2, OlderType DEF NInv, Typed
  <2>5. OneThread'
    BY <2>1 DEF NInv, OneThread
  <2>6. Ordered'
    <3>1. \A new \in threads' : \E th \in threads : new.ver = th.ver
      BY <2>1, <2>2
    <3>2. Ordered
      BY DEF NInv
    <3>3. ndw' = ndw
      BY <2>1
    <3> QED BY <2>3, <3>1, <3>2, <3>3 DEF Ordered
  <2> QED BY <2>4, <2>5, <2>6 DEF NInv
<1>8. CASE RefreshAsync
  <2>1. gps \in Road /\ tile_of(gps) \in TilesOfRoad
    BY DEF NInv, Typed, TilesOfRoad
  <2>2. CASE refreshing = TRUE
    BY <1>8, <2>1, <2>2, DaemonStep DEF RefreshAsync
  <2>3. CASE refreshing = FALSE
    <3>1. threads' = {[tile |-> tile_of(gps), answered |-> FALSE, ver |-> 0, data |-> 0]}
      BY <1>8, <2>3 DEF RefreshAsync, NInv, OneThread
    <3>2. UNCHANGED <<ndw, store, snapshot, gps>>
      BY <1>8 DEF RefreshAsync
    <3>3. refreshing' = TRUE
      BY <1>8, <2>3 DEF RefreshAsync
    <3>4. Typed'
      BY <2>1, <3>1, <3>2, <3>3 DEF NInv, Typed, Threads, Versions, Ages
    <3>5. Ordered'
      BY <3>1, <3>2 DEF NInv, Ordered, Typed, Versions
    <3> QED BY <3>1, <3>3, <3>4, <3>5 DEF NInv, OneThread
  <2> QED BY <2>2, <2>3 DEF NInv, Typed
<1>9. ASSUME NEW p \in Road, Poll(p) PROVE NInv'
  BY <1>9, DaemonStep DEF Poll, device
<1>10. CASE Match
  BY <1>10, DaemonStep DEF Match, device, NInv, Typed
<1>11. CASE Publish
  BY <1>11, DaemonStep DEF Publish, device, NInv, Typed
<1>12. CASE FailClosed
  BY <1>12, DaemonStep DEF FailClosed, device, NInv, Typed
<1>13. CASE TroubleChanges
  BY <1>13, DaemonStep DEF TroubleChanges, device, NInv, Typed
<1>14. CASE UNCHANGED vars
  BY <1>14, DaemonStep DEF vars, device, daemon, NInv, Typed
<1> QED BY <1>1, <1>2, <1>3, <1>4, <1>5, <1>6, <1>7, <1>8, <1>9, <1>10, <1>11, <1>12, <1>13,
           <1>14 DEF Next

\* The signs a covered position can match are all in the padded tile.
LEMMA NearbyComplete ==
  ASSUME NEW t \in Int, NEW p \in Int, covers(t, p), NEW v \in 1..MaxVersion
  PROVE  Nearby(SignsIn(t, v), p) = Nearby(Feed[v], p)
<1> USE NdwAssumption
<1>1. MinOf(t) \in Int /\ MaxOf(t) \in Int
  BY DEF MinOf, MaxOf
<1>2. \A s \in Nat : p - s <= SEARCH_RADIUS_M /\ s - p <= SEARCH_RADIUS_M
                       => MinOf(t) <= s /\ s <= MaxOf(t)
  BY <1>1 DEF covers
<1>3. Feed[v] \subseteq Nat
  OBVIOUS
<1> QED BY <1>2, <1>3 DEF Nearby, SignsIn

\* A published match sees every gantry within the search radius that the
\* gateway had a state for.
THEOREM CompleteTheorem == Spec => CompleteMatch
<1>1. ASSUME NInv, [Next]_vars, loop = "match", loop' = "publish", matched'.valid
      PROVE  matched' = MatchOn(Feed[snapshot.ver], gps)
  <2> USE NdwAssumption
  <2>1. Match
    BY <1>1 DEF Next, vars, daemon, TroubleChanges, Ndw, StoreRefresh, StoreRestart, Answer,
                AnswerFails, Deliver, Tick, Poll, RefreshAsync, Publish, FailClosed
  <2>2. matched' = match(gps)
    BY <2>1 DEF Match
  <2>3. NoMatch.valid = FALSE
    BY Zenon DEF NoMatch
  <2>4. snapshot.ver # 0 /\ covers(snapshot.tile, gps)
        /\ matched' = MatchOn(SignsIn(snapshot.tile, snapshot.ver), gps)
    BY <1>1, <2>2, <2>3 DEF match
  <2>5. snapshot.ver \in 1..MaxVersion /\ snapshot.tile \in Int /\ gps \in Int
    BY <1>1, <2>4 DEF NInv, Typed, Versions, TilesOfRoad, tile_of
  <2>6. Nearby(SignsIn(snapshot.tile, snapshot.ver), gps) = Nearby(Feed[snapshot.ver], gps)
    BY <2>4, <2>5, NearbyComplete
  <2> QED BY <2>4, <2>6 DEF MatchOn, Governing, Upcoming
<1>2. NInv /\ [Next]_vars
        => [loop = "match" /\ loop' = "publish" /\ matched'.valid
              => matched' = MatchOn(Feed[snapshot.ver], gps)]_vars
  BY <1>1
<1>3. NInv /\ [Next]_vars => NInv'
  BY StepKeepsNInv
<1> QED BY NInit, <1>2, <1>3, PTL DEF Spec, CompleteMatch

\* Sign states never go back, in spite of background fetches, gateway restarts
\* and answers that arrive late.
THEOREM NeverBackwardsTheorem == Spec => NeverBackwards
<1>1. NInv /\ [Next]_vars => [snapshot'.ver >= snapshot.ver]_vars
  <2> SUFFICES ASSUME NInv, Next PROVE snapshot'.ver >= snapshot.ver
    BY DEF vars
  <2> USE NdwAssumption
  <2>1. snapshot.ver \in Int /\ snapshot.ver <= snapshot.ver
    BY DEF NInv, Typed, Versions
  <2>2. CASE Deliver
    <3>1. PICK th \in threads :
            snapshot' = IF th.ver # 0
                          THEN [tile |-> th.tile, ver |-> th.ver, age |-> 0, data |-> th.data]
                          ELSE snapshot
      BY <2>2 DEF Deliver
    <3>2. th.ver \in Int /\ (th.ver = 0 \/ snapshot.ver <= th.ver)
      BY DEF NInv, Typed, Threads, Ordered, Versions
    <3> QED BY <3>1, <3>2, <2>1
  <2>3. CASE Tick
    BY <2>1, <2>3 DEF Tick, NInv, Typed
  <2>4. CASE UNCHANGED snapshot
    BY <2>1, <2>4
  <2> QED BY <2>2, <2>3, <2>4 DEF Next, TroubleChanges, Ndw, StoreRefresh, StoreRestart, Answer,
             AnswerFails, Poll, RefreshAsync, Match, Publish, FailClosed, device
<1>2. NInv /\ [Next]_vars => NInv'
  BY StepKeepsNInv
<1> QED BY NInit, <1>1, <1>2, PTL DEF Spec, NeverBackwards

\* The padding covers the whole of the snapshot's own tile.
THEOREM OwnTileTheorem == Spec => []OwnTileCovered
<1> USE NdwAssumption
<1>1. ASSUME NEW p \in Nat PROVE covers(tile_of(p), p)
  <2>1. tile_of(p) * TILE <= p /\ p <= (tile_of(p) + 1) * TILE
    BY DEF tile_of
  <2>2. tile_of(p) * TILE \in Int /\ (tile_of(p) + 1) * TILE \in Int
    BY DEF tile_of
  <2> QED BY <2>1, <2>2 DEF covers, MinOf, MaxOf
<1>2. NInv => OwnTileCovered
  BY <1>1 DEF NInv, Typed, OwnTileCovered
<1>3. NInv /\ [Next]_vars => NInv'
  BY StepKeepsNInv
<1> QED BY NInit, <1>2, <1>3, PTL DEF Spec

\* The flag tells whether a fetch is under way: from OneThread, and because only
\* a thread's end clears it.
LEMMA NextTypeOK == NInv /\ TypeOK /\ [Next]_vars => TypeOK'
<1> SUFFICES ASSUME NInv, TypeOK, [Next]_vars PROVE TypeOK' OBVIOUS
<1>1. Typed' BY StepKeepsNInv DEF NInv
<1>2. ASSUME /\ ndw' # 0 /\ (refreshing' <=> threads' # {})
             /\ loop' \in {"poll", "refresh", "match", "publish"}
             /\ matched'.valid \in BOOLEAN /\ ran' \in BOOLEAN /\ trouble' \in BOOLEAN
      PROVE  TypeOK'
  BY <1>1, <1>2 DEF Typed, Threads, TypeOK
<1>3. /\ ndw # 0 /\ (refreshing <=> threads # {}) /\ loop \in {"poll", "refresh", "match", "publish"}
      /\ matched.valid \in BOOLEAN /\ ran \in BOOLEAN /\ trouble \in BOOLEAN /\ ndw \in Nat
  BY NdwAssumption DEF TypeOK, Versions
<1>4. ASSUME Ndw \/ StoreRefresh \/ StoreRestart PROVE TypeOK'
  <2>1. ndw' # 0 /\ UNCHANGED <<device, daemon>>
    BY <1>3, <1>4 DEF Ndw, StoreRefresh, StoreRestart
  <2> QED BY <1>2, <1>3, <2>1 DEF device, daemon
<1>5. ASSUME Answer \/ AnswerFails PROVE TypeOK'
  <2>1. threads # {} /\ threads' # {} /\ UNCHANGED <<ndw, refreshing, daemon>>
    BY <1>5 DEF Answer, AnswerFails
  <2> QED BY <1>2, <1>3, <2>1 DEF daemon
<1>6. CASE Deliver
  <2>1. threads' = {} /\ refreshing' = FALSE /\ UNCHANGED <<ndw, daemon>>
    BY <1>6 DEF Deliver, NInv, OneThread
  <2> QED BY <1>2, <1>3, <2>1 DEF daemon
<1>7. CASE Tick
  <2>1. threads' # {} <=> threads # {} BY <1>7 DEF Tick
  <2>2. ran' \in BOOLEAN BY <1>7, Zenon DEF Tick
  <2> QED BY <1>2, <1>3, <1>7, <2>1, <2>2 DEF Tick
<1>8. ASSUME NEW q \in Road, Poll(q) PROVE TypeOK'
  <2>1. loop' \in {"poll", "refresh", "match", "publish"} BY <1>8 DEF Poll
  <2>2. UNCHANGED <<ndw, device, matched, ran, trouble>> BY <1>8 DEF Poll
  <2> QED BY <1>2, <1>3, <2>1, <2>2 DEF device
<1>9. CASE RefreshAsync
  <2>1. CASE refreshing = TRUE
    BY <1>2, <1>3, <1>9, <2>1 DEF RefreshAsync
  <2>2. CASE refreshing = FALSE
    <3>1. threads' # {} /\ refreshing' = TRUE BY <1>9, <2>2 DEF RefreshAsync
    <3> QED BY <1>2, <1>3, <1>9, <3>1 DEF RefreshAsync
  <2> QED BY <2>1, <2>2 DEF NInv, Typed
<1>10. CASE Match
  <2>1. match(gps).valid \in BOOLEAN
    <3>1. MatchOn(SignsIn(snapshot.tile, snapshot.ver), gps).valid = TRUE BY DEF MatchOn
    <3>2. NoMatch.valid = FALSE BY DEF NoMatch
    <3>3. match(gps).valid = TRUE \/ match(gps).valid = FALSE
      BY <3>1, <3>2 DEF match
    <3> QED BY <3>3, Zenon
  <2>2. matched' = match(gps) /\ loop' = "publish" /\ UNCHANGED <<ndw, device, ran, trouble>>
    BY <1>10 DEF Match
  <2> QED BY <1>2, <1>3, <2>1, <2>2 DEF device
<1>11. ASSUME Publish \/ FailClosed PROVE TypeOK'
  <2>1. ran' \in BOOLEAN BY <1>11, Zenon DEF Publish, FailClosed
  <2>2. NoMatch.valid \in BOOLEAN BY Zenon DEF NoMatch
  <2>3. matched' = NoMatch /\ loop' = "poll" /\ UNCHANGED <<ndw, device, trouble>>
    BY <1>11 DEF Publish, FailClosed
  <2> QED BY <1>2, <1>3, <2>1, <2>2, <2>3 DEF device
<1>12. CASE TroubleChanges
  <2>1. trouble' \in BOOLEAN BY <1>12, Zenon DEF TroubleChanges
  <2> QED BY <1>2, <1>3, <1>12, <2>1 DEF TroubleChanges, device
<1>13. CASE UNCHANGED vars
  BY <1>2, <1>3, <1>13 DEF vars, device, daemon
<1> QED BY <1>4, <1>5, <1>6, <1>7, <1>8, <1>9, <1>10, <1>11, <1>12, <1>13 DEF Next

\* _refreshing is set exactly while a fetch is under way: whatever fails, it
\* neither stays set nor lets a second fetch start.
THEOREM TypeCorrect == Spec => []TypeOK
<1>1. ASSUME Init PROVE TypeOK
  <2>1. Typed BY <1>1, NInit DEF NInv
  <2>2. ndw = 1 /\ threads = {} /\ loop = "poll" BY <1>1 DEF Init
  <2>3. refreshing = FALSE /\ ran \in BOOLEAN /\ trouble \in BOOLEAN /\ matched.valid \in BOOLEAN
    BY <1>1, Zenon DEF Init, NoMatch
  <2> QED BY <2>1, <2>2, <2>3 DEF Typed, Threads, TypeOK
<1>2. NInv /\ TypeOK /\ [Next]_vars => (NInv /\ TypeOK)'
  BY NextTypeOK, StepKeepsNInv
<1> QED BY <1>1, <1>2, NInit, PTL DEF Spec
=============================================================================

---------------------------- MODULE NdwPipeline -----------------------------
(***************************************************************************)
(* Matrix-sign hints from NDW to the bus: the gateway's FeedStore and      *)
(* region handler (gateway/ndw/service.py, region.py), the device's        *)
(* MatrixSignClient with its background fetch (europilot/ndw/client.py),   *)
(* and the europilotd loop (europilot/gateway.py).  A carriageway is a     *)
(* line of positions; a feed snapshot is a version number that says which  *)
(* signs have a display; signing and verifying are a failed answer or not. *)
(***************************************************************************)
EXTENDS Integers

CONSTANTS
  Road,             \* positions along the carriageway
  TILE, PAD_M, SEARCH_RADIUS_M,
  Feed,             \* Feed[v]: the signs (by position) with a display in NDW's version v
  MaxVersion,       \* bound: versions NDW publishes
  REFRESH_INTERVAL_S, STALE_AFTER_S

ASSUME NdwAssumption ==
  /\ Road \subseteq Nat
  /\ TILE \in Nat \ {0} /\ PAD_M \in Nat /\ SEARCH_RADIUS_M \in Nat
  /\ SEARCH_RADIUS_M <= PAD_M
  /\ MaxVersion \in Nat \ {0} /\ Feed \in [1..MaxVersion -> SUBSET Nat]
  /\ REFRESH_INTERVAL_S \in Nat /\ STALE_AFTER_S \in Nat /\ REFRESH_INTERVAL_S < STALE_AFTER_S

Versions == 0..MaxVersion            \* 0: none
Ages == 0..(STALE_AFTER_S + 1)       \* ages saturate past the longest timeout
Older(a) == IF a > STALE_AFTER_S THEN a ELSE a + 1
None == -1                           \* no gantry, no age

VARIABLES
  ndw,          \* version NDW publishes
  store,        \* FeedStore: version and age of _updated_at; ver = 0 before the first refresh
  threads,      \* background fetches: tile, answered, and the answer
  refreshing,   \* ._refreshing
  snapshot,     \* ._snapshot: tile, version, age since fetched_at, age of the data itself
  loop, gps, matched,   \* europilotd: next step, sampled position, local result
  msg,          \* the last euNdwMatrixSigns
  ran,          \* an iteration ended since time last advanced
  trouble       \* GPS is lost or iterations may raise

device == <<refreshing, snapshot, threads>>
daemon == <<loop, gps, matched, msg, ran, trouble>>
vars == <<ndw, store, device, daemon>>

-----------------------------------------------------------------------------
tile_of(p) == p \div TILE
TilesOfRoad == {tile_of(p) : p \in Road}

\* tile_bounds: the padded tile.
MinOf(t) == t * TILE - PAD_M
MaxOf(t) == (t + 1) * TILE + PAD_M

\* region.build: the signs of the padded tile that have a state.
SignsIn(t, v) == {s \in Feed[v] : MinOf(t) <= s /\ s <= MaxOf(t)}

\* Mutant: the padding is taken for the area the snapshot answers for.
MutCovers(t, p) == MinOf(t) <= p /\ p <= MaxOf(t)

\* _Snapshot.covers: all signs within the search radius are in the box.
covers(t, p) == MinOf(t) + SEARCH_RADIUS_M <= p /\ p <= MaxOf(t) - SEARCH_RADIUS_M

\* GantryIndex.match: the gantry last passed and the next one ahead.
Nearby(S, p) == {s \in S : p - s <= SEARCH_RADIUS_M /\ s - p <= SEARCH_RADIUS_M}
Governing(S, p) ==
  LET behind == {s \in Nearby(S, p) : s <= p} IN
  IF behind = {} THEN None ELSE CHOOSE s \in behind : \A u \in behind : u <= s
Upcoming(S, p) ==
  LET ahead == {s \in Nearby(S, p) : s > p} IN
  IF ahead = {} THEN None ELSE CHOOSE s \in ahead : \A u \in ahead : s <= u

\* A match; `data` is the age of the sign states it rests on (history only).
NoMatch == [valid |-> FALSE, governing |-> None, upcoming |-> None, data |-> 0]
MatchOn(S, p) ==
  [valid |-> TRUE, governing |-> Governing(S, p), upcoming |-> Upcoming(S, p),
   data |-> snapshot.data]

\* MatrixSignClient.match.
match(p) ==
  IF snapshot.ver # 0 /\ snapshot.age <= STALE_AFTER_S /\ covers(snapshot.tile, p)
    THEN MatchOn(SignsIn(snapshot.tile, snapshot.ver), p)
    ELSE NoMatch

\* MatrixSignClient.poll's condition.
NeedsRefresh(p) ==
  \/ snapshot.ver = 0 \/ snapshot.age > REFRESH_INTERVAL_S
  \/ snapshot.tile # tile_of(p) \/ ~covers(snapshot.tile, p)

Message(m, age) == [match |-> m, snapshotAge |-> age]

Init ==
  /\ ndw = 1 /\ store = [ver |-> 0, age |-> 0]
  /\ threads = {} /\ refreshing = FALSE
  /\ snapshot = [tile |-> 0, ver |-> 0, age |-> 0, data |-> 0]
  /\ loop = "poll" /\ gps \in Road /\ matched = NoMatch
  /\ msg = Message(NoMatch, None) /\ ran = FALSE /\ trouble = FALSE

-----------------------------------------------------------------------------
\* The gateway.

\* NDW publishes new aspects.
Ndw ==
  /\ ndw < MaxVersion /\ ndw' = ndw + 1
  /\ UNCHANGED <<store, device, daemon>>

\* FeedStore.refresh; a failing one keeps the last good states.
StoreRefresh ==
  /\ store' = [ver |-> ndw, age |-> 0]
  /\ UNCHANGED <<ndw, device, daemon>>

\* The gateway restarts with an empty store.
StoreRestart ==
  /\ store' = [ver |-> 0, age |-> 0]
  /\ UNCHANGED <<ndw, device, daemon>>

\* do_GET /ndw/region has a snapshot to serve.
Serving == store.ver # 0 /\ Feed[store.ver] # {}

\* The handler answers a region request from the store.
Answer ==
  /\ Serving
  /\ \E th \in threads :
       /\ ~th.answered
       /\ threads' = (threads \ {th}) \cup
            {[tile |-> th.tile, answered |-> TRUE, ver |-> store.ver, data |-> store.age]}
  /\ UNCHANGED <<ndw, store, refreshing, snapshot, daemon>>

\* The request fails: no network, 503, or a body that is refused.
AnswerFails ==
  /\ \E th \in threads :
       /\ ~th.answered
       /\ threads' = (threads \ {th}) \cup
            {[tile |-> th.tile, answered |-> TRUE, ver |-> 0, data |-> 0]}
  /\ UNCHANGED <<ndw, store, refreshing, snapshot, daemon>>

-----------------------------------------------------------------------------
\* Mutant: a failed fetch returns without clearing _refreshing.
MutDeliver ==
  \E th \in threads :
    /\ th.answered
    /\ threads' = threads \ {th}
    /\ IF th.ver # 0
         THEN /\ snapshot' = [tile |-> th.tile, ver |-> th.ver, age |-> 0, data |-> th.data]
              /\ refreshing' = FALSE
         ELSE UNCHANGED <<snapshot, refreshing>>
    /\ UNCHANGED <<ndw, store, daemon>>

\* The end of _refresh_async's run: install what was fetched.
Deliver ==
  \E th \in threads :
    /\ th.answered
    /\ threads' = threads \ {th}
    /\ snapshot' = IF th.ver # 0
                     THEN [tile |-> th.tile, ver |-> th.ver, age |-> 0, data |-> th.data]
                     ELSE snapshot
    /\ refreshing' = FALSE
    /\ UNCHANGED <<ndw, store, daemon>>

\* One unit of time; the 4 Hz loop iterates at least once in each.
Tick ==
  /\ ran /\ loop = "poll" /\ ran' = FALSE
  /\ store' = [store EXCEPT !.age = Older(@)]
  /\ snapshot' = [snapshot EXCEPT !.age = Older(@), !.data = Older(@)]
  /\ threads' = {[th EXCEPT !.data = Older(@)] : th \in threads}
  /\ UNCHANGED <<ndw, refreshing, loop, gps, matched, msg, trouble>>

-----------------------------------------------------------------------------
\* An iteration with a GPS fix starts: poll looks at the snapshot.
Poll(p) ==
  /\ loop = "poll" /\ gps' = p
  /\ loop' = IF NeedsRefresh(p) THEN "refresh" ELSE "match"
  /\ UNCHANGED <<ndw, store, device, matched, msg, ran, trouble>>

\* Mutant: a thread is started whether or not one is running.
MutRefreshAsync ==
  /\ loop = "refresh" /\ loop' = "match" /\ refreshing' = TRUE
  /\ threads' = threads \cup {[tile |-> tile_of(gps), answered |-> FALSE, ver |-> 0, data |-> 0]}
  /\ UNCHANGED <<ndw, store, snapshot, gps, matched, msg, ran, trouble>>

\* _refresh_async: start a fetch unless one is running.
RefreshAsync ==
  /\ loop = "refresh" /\ loop' = "match"
  /\ IF refreshing
       THEN UNCHANGED <<refreshing, threads>>
       ELSE /\ refreshing' = TRUE
            /\ threads' = threads \cup
                 {[tile |-> tile_of(gps), answered |-> FALSE, ver |-> 0, data |-> 0]}
  /\ UNCHANGED <<ndw, store, snapshot, gps, matched, msg, ran, trouble>>

Match ==
  /\ loop = "match" /\ loop' = "publish"
  /\ matched' = match(gps)
  /\ UNCHANGED <<ndw, store, device, gps, msg, ran, trouble>>

\* age_s is read after match, then the message goes out.
Publish ==
  /\ loop = "publish" /\ loop' = "poll" /\ ran' = TRUE
  /\ msg' = Message(matched, IF snapshot.ver = 0 THEN None ELSE snapshot.age)
  /\ matched' = NoMatch
  /\ UNCHANGED <<ndw, store, device, gps, trouble>>

\* No GPS, or an iteration that raised: the fail-closed heartbeat.
FailClosed ==
  /\ trouble /\ loop \in {"poll", "publish"} /\ loop' = "poll" /\ ran' = TRUE
  /\ msg' = Message(NoMatch, None) /\ matched' = NoMatch
  /\ UNCHANGED <<ndw, store, device, gps, trouble>>

\* GPS and whatever makes iterations raise come and go.
TroubleChanges ==
  /\ trouble' = ~trouble
  /\ UNCHANGED <<ndw, store, device, loop, gps, matched, msg, ran>>

Next ==
  \/ TroubleChanges
  \/ Ndw \/ StoreRefresh \/ StoreRestart \/ Answer \/ AnswerFails \/ Deliver \/ Tick
  \/ \E p \in Road : Poll(p)
  \/ RefreshAsync \/ Match \/ Publish \/ FailClosed

Spec == Init /\ [][Next]_vars

\* The daemon and its thread are scheduled, requests end by REQUEST_TIMEOUT_S,
\* and one repeated for ever to a gateway that serves is answered some day.
FairSpec ==
  /\ Spec
  /\ WF_vars(\E p \in Road : Poll(p)) /\ WF_vars(RefreshAsync) /\ WF_vars(Match)
  /\ WF_vars(Publish) /\ WF_vars(Deliver) /\ WF_vars(Answer \/ AnswerFails)
  /\ SF_vars(Answer)

-----------------------------------------------------------------------------
\* Types, and _refreshing tells exactly whether a fetch is under way.
TypeOK ==
  /\ ndw \in Versions \ {0} /\ store \in [ver : Versions, age : Ages]
  /\ threads \subseteq [tile : TilesOfRoad, answered : BOOLEAN, ver : Versions, data : Ages]
  /\ refreshing \in BOOLEAN /\ (refreshing <=> threads # {})
  /\ snapshot \in [tile : TilesOfRoad \cup {0}, ver : Versions, age : Ages, data : Ages]
  /\ loop \in {"poll", "refresh", "match", "publish"} /\ gps \in Road
  /\ matched.valid \in BOOLEAN /\ ran \in BOOLEAN /\ trouble \in BOOLEAN

\* A published match is the match against everything the gateway knew: tile,
\* padding and covers() never hide a gantry within the search radius, wherever
\* the car went while the snapshot was fetched.
CompleteMatch ==
  [][loop = "match" /\ loop' = "publish" /\ matched'.valid
       => matched' = MatchOn(Feed[snapshot.ver], gps)]_vars

\* Sign states never go back: the _refreshing flag keeps an older answer from
\* replacing a newer snapshot.
NeverBackwards == [][snapshot'.ver >= snapshot.ver]_vars

\* In its own tile a fresh snapshot always answers, the tile's edges included:
\* the gateway's padding is enough for the client's margin.
OwnTileCovered == snapshot.ver # 0 /\ snapshot.tile = tile_of(gps) => covers(snapshot.tile, gps)

\* While the gateway serves and the car stays where it is with a GPS fix, valid
\* messages keep coming, whatever failed before.
Recovers == \A p \in Road : <>[](gps = p /\ Serving /\ ~trouble) => []<>(msg.match.valid)
=============================================================================

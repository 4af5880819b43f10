---------------------------- MODULE OsmTileSync -----------------------------
(***************************************************************************)
(* The OSM tile path: the gateway's TileStore (gateway/osm/delivery.py,    *)
(* manifest.py), the device's OsmTileClient (europilot/osm/client.py) with *)
(* its background sync thread, and the osmd loop (europilot/osm/daemon.py) *)
(* that polls it and matches the pose.  A tile's bytes, its sha256 and the *)
(* decoded roads are one version number; a manifest is the versions of a   *)
(* group's tiles, and stands for its own signature and ETag.               *)
(***************************************************************************)
EXTENDS Integers, FiniteSets

CONSTANTS
  Tiles,         \* the tiles; naturals, in the manifest's (lat, lon) order
  GroupOf,       \* group_of: tile -> group
  MaxVersion,    \* bound: versions published per tile
  Rebuilt        \* bound: the tiles published more than once

ASSUME OsmAssumption ==
  /\ Tiles \subseteq Nat
  /\ DOMAIN GroupOf = Tiles
  /\ MaxVersion \in Nat \ {0} /\ Rebuilt \subseteq Tiles

Groups == {GroupOf[t] : t \in Tiles}
TilesOf(g) == {t \in Tiles : GroupOf[t] = g}
Versions == 0..MaxVersion           \* 0: no such tile
Corrupt == MaxVersion + 1           \* bytes that hash to nothing the gateway ever signed

VARIABLES
  faults,         \* tile downloads may fail or be corrupted on the way; never changes
  server, last,   \* TileStore: published version per tile; the newest ever published
  roads, hash,    \* OsmTileClient._roads, ._hash: version per tile, 0 when absent
  group_etag,     \* ._group_etag: the manifest last synced per group
  fresh,          \* groups with _synced_at younger than REFRESH_INTERVAL_S
  refreshing,     \* ._refreshing
  pc,             \* the sync thread: "idle" when none runs
  group,          \* the group it syncs
  manifest,       \* the verified manifest it works on
  wanted,         \* tiles it still has to fetch
  result,         \* history: what the last sync returned
  pose,           \* tile the car is in
  advisory        \* version matched by osmd in its last iteration, 0 for Advisory.none()

client == <<roads, hash, group_etag, fresh, refreshing>>
thread == <<pc, group, manifest, wanted, result>>
vars == <<faults, server, last, client, thread, pose, advisory>>

Empty == [t \in {} |-> 0]           \* no manifest: a group without tiles gets a 404, never one

\* TileStore.manifest: the versions of the tiles a group holds.
ManifestOf(g) == [t \in {u \in TilesOf(g) : server[u] # 0} |-> server[t]]
Manifests == UNION {[S -> 1..MaxVersion] : S \in SUBSET Tiles}

TypeOK ==
  /\ faults \in BOOLEAN
  /\ server \in [Tiles -> Versions] /\ last \in [Tiles -> Versions]
  /\ roads \in [Tiles -> Versions] /\ hash \in [Tiles -> Versions]
  /\ group_etag \in [Groups -> Manifests]
  /\ fresh \subseteq Groups
  /\ refreshing \in BOOLEAN
  /\ pc \in {"idle", "manifest", "tiles", "prune", "finish", "clear"}
  /\ group \in Groups
  /\ manifest \in Manifests
  /\ wanted \subseteq Tiles
  /\ result \in BOOLEAN
  /\ pose \in Tiles
  /\ advisory \in Versions

Init ==
  /\ faults \in BOOLEAN
  /\ server \in [Tiles -> {0, 1}] /\ last = server
  /\ roads = [t \in Tiles |-> 0] /\ hash = roads
  /\ group_etag = [g \in Groups |-> Empty]
  /\ fresh = {} /\ refreshing = FALSE
  /\ pose \in Tiles /\ advisory = 0
  /\ pc = "idle" /\ group = GroupOf[pose] /\ manifest = Empty /\ wanted = {} /\ result = FALSE

-----------------------------------------------------------------------------
\* TileStore.put_tile with new content (a rebuilt or redeployed store).
Publish(t) ==
  /\ last[t] < (IF t \in Rebuilt THEN MaxVersion ELSE 1)
  /\ last' = [last EXCEPT ![t] = last[t] + 1]
  /\ server' = [server EXCEPT ![t] = last[t] + 1]
  /\ UNCHANGED <<faults, client, thread, pose, advisory>>

\* A redeployed store no longer holds the tile.
Withdraw(t) ==
  /\ server[t] # 0
  /\ server' = [server EXCEPT ![t] = 0]
  /\ UNCHANGED <<faults, last, client, thread, pose, advisory>>

\* Driving to another tile.
Drive(t) ==
  /\ t # pose /\ pose' = t
  /\ UNCHANGED <<faults, server, last, client, thread, advisory>>

\* REFRESH_INTERVAL_S passes since a group's last sync.
Expire(g) ==
  /\ g \in fresh /\ fresh' = fresh \ {g}
  /\ UNCHANGED <<faults, server, last, roads, hash, group_etag, refreshing, thread, pose, advisory>>

\* poll: start a sync thread unless one runs or the group is fresh.
poll(g) ==
  IF refreshing \/ g \in fresh
    THEN UNCHANGED <<refreshing, thread>>
    ELSE /\ refreshing' = TRUE
         /\ pc' = "manifest" /\ group' = g
         /\ UNCHANGED <<manifest, wanted, result>>

\* One osmd iteration with a GPS fix: poll, then match against the roads of the
\* pose's own tile.
IterateWithGps ==
  /\ poll(GroupOf[pose]) /\ advisory' = roads[pose]
  /\ UNCHANGED <<faults, server, last, roads, hash, group_etag, fresh, pose>>

\* An iteration without GPS, or one that raised: Advisory.none() goes out.
IterateWithoutGps ==
  /\ advisory' = 0
  /\ UNCHANGED <<faults, server, last, client, thread, pose>>

\* sync returns, `finally` still to run.
Return(ok) ==
  /\ pc' = "clear" /\ result' = ok

\* The manifest request fails, is not found (an empty group) or does not verify.
ManifestUnusable ==
  /\ pc = "manifest"
  /\ Return(FALSE)
  /\ UNCHANGED <<faults, server, last, client, group, manifest, wanted, pose, advisory>>

\* 304: If-None-Match carried the ETag the gateway would send.
ManifestUnchanged ==
  /\ pc = "manifest" /\ ManifestOf(group) # Empty
  /\ group_etag[group] = ManifestOf(group)
  /\ fresh' = fresh \cup {group}
  /\ Return(TRUE)
  /\ UNCHANGED <<faults, server, last, roads, hash, group_etag, refreshing, group, manifest, wanted,
                 pose, advisory>>

\* Mutant: only missing tiles are fetched, not outdated ones.
MutTilesToFetch(m) == {t \in DOMAIN m : hash[t] = 0}

\* tiles_to_fetch: missing or different from the manifest.
tiles_to_fetch(m) == {t \in DOMAIN m : hash[t] # m[t]}

\* 200 with a verified manifest.
ManifestChanged ==
  /\ pc = "manifest" /\ ManifestOf(group) # Empty
  /\ group_etag[group] # ManifestOf(group)
  /\ manifest' = ManifestOf(group)
  /\ wanted' = tiles_to_fetch(ManifestOf(group))
  /\ pc' = IF wanted' = {} THEN "prune" ELSE "tiles"
  /\ UNCHANGED <<faults, server, last, client, group, result, pose, advisory>>

\* What a tile request can deliver; 0 stands for any failed request.
Bodies(t) == {server[t]} \cup (IF faults THEN {0, Corrupt} ELSE {})

\* Mutant: the downloaded bytes are not checked against the manifest's hash.
MutFetchTile ==
  /\ pc = "tiles"
  /\ \E t \in wanted :
     /\ \A u \in wanted : t <= u
     /\ \E body \in Bodies(t) :
          IF body # 0
            THEN /\ roads' = [roads EXCEPT ![t] = body]
                 /\ hash' = [hash EXCEPT ![t] = manifest[t]]
            ELSE UNCHANGED <<roads, hash>>
     /\ wanted' = wanted \ {t}
     /\ pc' = IF wanted' = {} THEN "prune" ELSE "tiles"
  /\ UNCHANGED <<faults, server, last, group_etag, fresh, refreshing, group, manifest, result,
                 pose, advisory>>

\* _fetch_tile, in manifest order: installed only if the bytes hash to the
\* manifest's hash, otherwise the tile is left as it is and the sync goes on.
FetchTile ==
  /\ pc = "tiles"
  /\ \E t \in wanted :
     /\ \A u \in wanted : t <= u
     /\ \E body \in Bodies(t) :
          IF body = manifest[t]
            THEN /\ roads' = [roads EXCEPT ![t] = body]
                 /\ hash' = [hash EXCEPT ![t] = manifest[t]]
            ELSE UNCHANGED <<roads, hash>>
     /\ wanted' = wanted \ {t}
     /\ pc' = IF wanted' = {} THEN "prune" ELSE "tiles"
  /\ UNCHANGED <<faults, server, last, group_etag, fresh, refreshing, group, manifest, result,
                 pose, advisory>>

\* _prune: drop the group's tiles that left the manifest.
Prune ==
  LET gone == {t \in TilesOf(group) : hash[t] # 0 /\ t \notin DOMAIN manifest} IN
  /\ pc = "prune"
  /\ roads' = [t \in Tiles |-> IF t \in gone THEN 0 ELSE roads[t]]
  /\ hash' = [t \in Tiles |-> IF t \in gone THEN 0 ELSE hash[t]]
  /\ pc' = "finish"
  /\ UNCHANGED <<faults, server, last, group_etag, fresh, refreshing, group, manifest, wanted, result,
                 pose, advisory>>

\* The end of sync: remember the manifest's ETag, mark the group synced.
Finish ==
  /\ pc = "finish"
  /\ group_etag' = [group_etag EXCEPT ![group] = manifest]
  /\ fresh' = fresh \cup {group}
  /\ Return(TRUE)
  /\ UNCHANGED <<faults, server, last, roads, hash, refreshing, group, manifest, wanted, pose, advisory>>

\* run's `finally`; the thread's locals are gone.
Clear ==
  /\ pc = "clear"
  /\ refreshing' = FALSE /\ pc' = "idle" /\ manifest' = Empty /\ result' = FALSE
  /\ UNCHANGED <<faults, server, last, roads, hash, group_etag, fresh, group, wanted, pose, advisory>>

-----------------------------------------------------------------------------
Sync == ManifestUnusable \/ ManifestUnchanged \/ ManifestChanged
          \/ FetchTile \/ Prune \/ Finish \/ Clear

Next ==
  \/ \E t \in Tiles : Publish(t) \/ Withdraw(t) \/ Drive(t)
  \/ \E g \in Groups : Expire(g)
  \/ IterateWithGps \/ IterateWithoutGps
  \/ Sync

Spec == Init /\ [][Next]_vars

\* The 4 Hz loop keeps running with GPS from time to time, time passes, the
\* sync thread is scheduled, and a manifest request that is retried for ever
\* is answered some day.
FairSpec ==
  /\ Spec
  /\ WF_vars(IterateWithGps) /\ WF_vars(Sync) /\ \A g \in Groups : WF_vars(Expire(g))
  /\ SF_vars(ManifestUnchanged \/ ManifestChanged)

-----------------------------------------------------------------------------
\* What match reads is what the signed manifest vouched for, and something the
\* gateway really published: the sha256 check of _fetch_tile, with _roads and
\* _hash updated together.
AuthenticTiles == \A t \in Tiles : roads[t] = hash[t] /\ roads[t] <= last[t]

\* The sync implements the abstract cache: whatever happens between the
\* manifest and the tile downloads, a tile is only ever replaced by what the
\* gateway publishes at that moment, and never by anything older.
Abstract == INSTANCE TileCache WITH cache <- roads
ImplementsTileCache == Abstract!Spec

\* With tile downloads that work, the tiles of the group the car stays in
\* end up equal to the gateway's, whatever was published or withdrawn during
\* earlier syncs (ETags, 304s and pruning included).
Converges ==
  ~faults => \A g \in Groups :
    <>[](GroupOf[pose] = g /\ ManifestOf(g) # Empty)
      => <>[](\A t \in TilesOf(g) : roads[t] = server[t])
=============================================================================

------------------------- MODULE OsmTileSyncProofs --------------------------
(***************************************************************************)
(* The tile sync implements the abstract tile cache, for every set of      *)
(* tiles, grouping and number of versions.                                 *)
(***************************************************************************)
EXTENDS OsmTileSync, TLAPS

\* The part of a manifest in use that the proofs need: it lists versions that
\* were really published, for tiles of the repository.
GoodManifest(m) ==
  /\ DOMAIN m \subseteq Tiles
  /\ \A t \in DOMAIN m : m[t] \in 1..MaxVersion /\ m[t] <= last[t]

\* The inductive invariant: versions are typed and bounded by what was
\* published, and the sync thread only wants tiles of its manifest.
OInv ==
  /\ server \in [Tiles -> Versions] /\ last \in [Tiles -> Versions]
  /\ roads \in [Tiles -> Versions] /\ hash \in [Tiles -> Versions]
  /\ \A t \in Tiles : server[t] <= last[t]
  /\ AuthenticTiles
  /\ GoodManifest(manifest)
  /\ wanted \subseteq DOMAIN manifest
  /\ pc # "tiles" => wanted = {}
  /\ refreshing \in BOOLEAN /\ (refreshing = FALSE => pc = "idle")

\* A manifest built from the store lists published versions.
LEMMA StoreManifestGood ==
  ASSUME OInv, NEW g
  PROVE  GoodManifest(ManifestOf(g))
BY OsmAssumption DEF OInv, GoodManifest, ManifestOf, TilesOf, Versions

LEMMA OInit == Init => OInv
<1> SUFFICES ASSUME Init PROVE OInv
  OBVIOUS
<1>1. /\ server \in [Tiles -> Versions] /\ last \in [Tiles -> Versions]
      /\ roads \in [Tiles -> Versions] /\ hash \in [Tiles -> Versions]
      /\ \A t \in Tiles : server[t] <= last[t]
      /\ AuthenticTiles
  BY OsmAssumption DEF Init, Versions, AuthenticTiles
<1>2. GoodManifest(manifest) /\ wanted \subseteq DOMAIN manifest
  BY DEF Init, GoodManifest, Empty
<1>3. wanted = {} /\ pc = "idle" /\ refreshing \in BOOLEAN
  BY Zenon DEF Init
<1> QED BY <1>1, <1>2, <1>3 DEF OInv

\* A step that leaves the store, the tiles and the thread's work alone.
LEMMA IdleStep ==
  ASSUME OInv, UNCHANGED <<server, last, roads, hash, manifest, wanted>>,
         pc # "tiles" \/ pc' = pc,
         refreshing' \in BOOLEAN, refreshing' = FALSE => pc' = "idle"
  PROVE  OInv'
<1>1. AuthenticTiles' /\ GoodManifest(manifest)'
  BY DEF OInv, AuthenticTiles, GoodManifest
<1>2. pc' # "tiles" => wanted' = {}
  BY DEF OInv
<1> QED BY <1>1, <1>2 DEF OInv

\* Every step preserves the inductive invariant.
LEMMA StepKeepsOInv ==
  ASSUME OInv, [Next]_vars
  PROVE  OInv'
<1> USE OsmAssumption
<1>1. ASSUME NEW t \in Tiles, Publish(t) PROVE OInv'
  BY <1>1 DEF OInv, Publish, AuthenticTiles, GoodManifest, client, thread, Versions
<1>2. ASSUME NEW t \in Tiles, Withdraw(t) PROVE OInv'
  BY <1>2 DEF OInv, Withdraw, AuthenticTiles, GoodManifest, client, thread, Versions
<1>3. ASSUME NEW t \in Tiles, Drive(t) PROVE OInv'
  BY <1>3, IdleStep DEF Drive, client, thread, OInv
<1>4. ASSUME NEW g \in Groups, Expire(g) PROVE OInv'
  BY <1>4, IdleStep DEF Expire, thread, OInv
<1>5. CASE IterateWithGps
  <2>1. CASE refreshing = TRUE \/ GroupOf[pose] \in fresh
    <3>1. UNCHANGED <<server, last, roads, hash, manifest, wanted, refreshing, pc>>
      BY <1>5, <2>1 DEF IterateWithGps, poll, thread
    <3> QED BY <3>1, IdleStep DEF OInv
  <2>2. CASE refreshing = FALSE /\ GroupOf[pose] \notin fresh
    <3>1. UNCHANGED <<server, last, roads, hash, manifest, wanted>> /\ refreshing' = TRUE
      BY <1>5, <2>2 DEF IterateWithGps, poll
    <3>2. pc # "tiles"
      BY <2>2 DEF OInv
    <3> QED BY <3>1, <3>2, IdleStep
  <2> QED BY <2>1, <2>2 DEF OInv
<1>6. CASE IterateWithoutGps
  BY <1>6, IdleStep DEF IterateWithoutGps, client, thread, OInv
<1>7. CASE ManifestUnusable
  BY <1>7, IdleStep DEF ManifestUnusable, Return, client, OInv
<1>8. CASE ManifestUnchanged
  BY <1>8, IdleStep DEF ManifestUnchanged, Return, OInv
<1>9. CASE ManifestChanged
  <2>1. GoodManifest(ManifestOf(group))
    BY StoreManifestGood
  <2>2. /\ UNCHANGED <<server, last, roads, hash, refreshing>> /\ refreshing # FALSE
        /\ manifest' = ManifestOf(group) /\ wanted' \subseteq DOMAIN manifest'
        /\ pc' # "tiles" => wanted' = {}
    BY <1>9 DEF ManifestChanged, tiles_to_fetch, client, OInv
  <2>3. GoodManifest(manifest)'
    BY <2>1, <2>2 DEF GoodManifest
  <2> QED BY <2>2, <2>3 DEF OInv, AuthenticTiles
<1>10. CASE FetchTile
  <2>1. PICK t \in wanted :
          /\ \E body \in Bodies(t) :
               IF body = manifest[t]
                 THEN /\ roads' = [roads EXCEPT ![t] = body]
                      /\ hash' = [hash EXCEPT ![t] = manifest[t]]
                 ELSE UNCHANGED <<roads, hash>>
          /\ wanted' = wanted \ {t}
          /\ pc' = IF wanted' = {} THEN "prune" ELSE "tiles"
    BY <1>10 DEF FetchTile
  <2>2. t \in Tiles /\ manifest[t] \in Versions /\ manifest[t] <= last[t]
    BY <2>1 DEF OInv, GoodManifest, Versions
  <2>3. UNCHANGED <<server, last, manifest, refreshing>> /\ refreshing # FALSE
    BY <1>10 DEF FetchTile, OInv
  <2>4. /\ roads' \in [Tiles -> Versions] /\ hash' \in [Tiles -> Versions]
        /\ AuthenticTiles'
    BY <2>1, <2>2, <2>3 DEF OInv, AuthenticTiles
  <2> QED BY <2>1, <2>3, <2>4 DEF OInv, GoodManifest
<1>11. CASE Prune
  BY <1>11 DEF OInv, Prune, AuthenticTiles, GoodManifest, Versions
<1>12. CASE Finish
  BY <1>12, IdleStep DEF Finish, Return, OInv
<1>13. CASE Clear
  BY <1>13 DEF OInv, Clear, AuthenticTiles, GoodManifest, Empty
<1>14. CASE UNCHANGED vars
  BY <1>14, IdleStep DEF vars, client, thread, OInv
<1> QED BY <1>1, <1>2, <1>3, <1>4, <1>5, <1>6, <1>7, <1>8, <1>9, <1>10, <1>11, <1>12, <1>13,
           <1>14 DEF Next, Sync

\* The device's tiles are the ones the gateway signed and published, and match
\* and tiles_to_fetch never see different contents.
THEOREM AuthenticTheorem == Spec => []AuthenticTiles
<1>1. OInv /\ [Next]_vars => OInv'
  BY StepKeepsOInv
<1>2. OInv => AuthenticTiles
  BY DEF OInv
<1> QED BY OInit, <1>1, <1>2, PTL DEF Spec

\* Every step of the sync is a step of the abstract cache or leaves it alone.
LEMMA StepRefines ==
  ASSUME OInv, [Next]_vars
  PROVE  [Abstract!Next]_<<server, last, roads>>
<1> USE OsmAssumption
<1>1. ASSUME NEW t \in Tiles, Publish(t) PROVE Abstract!Publish(t)
  <2>1. last[t] \in Nat
    BY DEF OInv, Versions
  <2>2. last[t] < MaxVersion
    BY <1>1, <2>1 DEF Publish
  <2> QED BY <1>1, <2>2 DEF Publish, Abstract!Publish, client
<1>2. ASSUME NEW t \in Tiles, Withdraw(t) PROVE Abstract!Withdraw(t)
  BY <1>2 DEF Withdraw, Abstract!Withdraw, client
<1>3. ASSUME FetchTile
      PROVE  UNCHANGED <<server, last, roads>> \/ \E t \in Tiles : Abstract!Install(t)
  <2>1. PICK t \in wanted :
          \E body \in Bodies(t) :
             IF body = manifest[t]
               THEN /\ roads' = [roads EXCEPT ![t] = body]
                    /\ hash' = [hash EXCEPT ![t] = manifest[t]]
               ELSE UNCHANGED <<roads, hash>>
    BY <1>3 DEF FetchTile
  <2>2. t \in Tiles /\ manifest[t] \in 1..MaxVersion
    BY <2>1 DEF OInv, GoodManifest
  <2>3. UNCHANGED <<server, last>>
    BY <1>3 DEF FetchTile
  <2>4. manifest[t] \in Bodies(t) => manifest[t] = server[t]
    BY <2>2 DEF Bodies, Corrupt
  <2>5. CASE manifest[t] \in Bodies(t) /\ roads' = [roads EXCEPT ![t] = manifest[t]]
    <3>1. manifest[t] # 0
      BY <2>2
    <3>2. manifest[t] = server[t]
      BY <2>4, <2>5
    <3>3. roads' = [roads EXCEPT ![t] = server[t]]
      BY <2>5, <3>2, Zenon
    <3>4. Abstract!Install(t)
      BY <3>1, <3>2, <3>3, <2>3 DEF Abstract!Install
    <3> QED BY <3>4, <2>2
  <2>6. CASE UNCHANGED roads
    BY <2>3, <2>6
  <2> QED BY <2>1, <2>5, <2>6
<1>4. ASSUME Prune PROVE \E S \in SUBSET Tiles : Abstract!Forget(S)
  <2> DEFINE gone == {t \in TilesOf(group) : hash[t] # 0 /\ t \notin DOMAIN manifest}
  <2>1. gone \in SUBSET Tiles
    BY DEF TilesOf
  <2>2. Abstract!Forget(gone)
    BY <1>4 DEF Prune, Abstract!Forget
  <2> QED BY <2>1, <2>2
<1>5. ASSUME NEW t \in Tiles, Drive(t) PROVE UNCHANGED <<server, last, roads>>
  BY <1>5 DEF Drive, client
<1>6. ASSUME NEW g \in Groups, Expire(g) PROVE UNCHANGED <<server, last, roads>>
  BY <1>6 DEF Expire
<1>7. ASSUME IterateWithGps \/ IterateWithoutGps \/ ManifestUnusable \/ ManifestUnchanged
             \/ ManifestChanged \/ Finish \/ Clear \/ UNCHANGED vars
      PROVE  UNCHANGED <<server, last, roads>>
  BY <1>7 DEF IterateWithGps, IterateWithoutGps, ManifestUnusable, ManifestUnchanged,
              ManifestChanged, Finish, Clear, vars, client
<1> QED BY <1>1, <1>2, <1>3, <1>4, <1>5, <1>6, <1>7 DEF Next, Sync, Abstract!Next

\* The tile sync implements the abstract tile cache: the device only ever
\* installs what the gateway publishes at that moment, or forgets.
THEOREM RefinementTheorem == Spec => ImplementsTileCache
<1>1. Init => Abstract!Init
  BY DEF Init, Abstract!Init
<1>2. OInv /\ [Next]_vars => OInv'
  BY StepKeepsOInv
<1>3. OInv /\ [Next]_vars => [Abstract!Next]_<<server, last, roads>>
  BY StepRefines
<1> QED BY OInit, <1>1, <1>2, <1>3, PTL DEF Spec, ImplementsTileCache, Abstract!Spec


(***************************************************************************)
(* The types of the client: every manifest it keeps is one of the tiles'.  *)
(***************************************************************************)
LEMMA ManifestTypes ==
  ASSUME server \in [Tiles -> Versions]
  PROVE  Empty \in Manifests /\ \A g \in Groups : ManifestOf(g) \in Manifests
<1>1. Empty \in Manifests
  <2>1. Empty \in [{} -> 1..MaxVersion] BY DEF Empty
  <2> QED BY <2>1 DEF Manifests
<1>2. ASSUME NEW g \in Groups PROVE ManifestOf(g) \in Manifests
  <2> DEFINE S == {u \in TilesOf(g) : server[u] # 0}
  <2>1. S \in SUBSET Tiles BY DEF TilesOf
  <2>2. \A u \in S : server[u] \in 1..MaxVersion
    BY OsmAssumption DEF OsmAssumption, TilesOf, Versions
  <2>3. ManifestOf(g) \in [S -> 1..MaxVersion] BY <2>2 DEF ManifestOf
  <2> QED BY <2>1, <2>3 DEF Manifests
<1> QED BY <1>1, <1>2

LEMMA NextTypeOK == OInv /\ TypeOK /\ [Next]_vars => TypeOK'
<1> SUFFICES ASSUME OInv, TypeOK, [Next]_vars PROVE TypeOK' OBVIOUS
<1>0. /\ MaxVersion \in Nat \ {0} /\ Empty \in Manifests /\ \A g \in Groups : ManifestOf(g) \in Manifests
      /\ \A t \in Tiles : GroupOf[t] \in Groups
  BY OsmAssumption, ManifestTypes DEF OsmAssumption, TypeOK, Groups
<1>h. OInv'
  BY StepKeepsOInv
<1> USE <1>0 DEF TypeOK
<1>1. ASSUME NEW t \in Tiles, Publish(t) \/ Withdraw(t) PROVE TypeOK'
  <2>1. server' \in [Tiles -> Versions] /\ last' \in [Tiles -> Versions] BY <1>h DEF OInv
  <2> QED BY <1>1, <2>1 DEF Publish, Withdraw, client, thread
<1>2. ASSUME NEW t \in Tiles, Drive(t) PROVE TypeOK'
  BY <1>2 DEF Drive, client, thread
<1>3. ASSUME NEW g \in Groups, Expire(g) PROVE TypeOK'
  BY <1>3 DEF Expire, thread
<1>4. CASE IterateWithGps
  <2>1. refreshing' \in BOOLEAN BY <1>h DEF OInv
  <2>2. UNCHANGED <<manifest, wanted, result>> /\ group' \in Groups
        /\ pc' \in {pc, "manifest"}
    BY <1>4 DEF IterateWithGps, poll, thread
  <2>3. advisory' \in Versions BY <1>4 DEF IterateWithGps
  <2> QED BY <1>4, <2>1, <2>2, <2>3 DEF IterateWithGps
<1>5. CASE IterateWithoutGps
  <2>1. advisory' \in Versions BY <1>5 DEF IterateWithoutGps, Versions
  <2> QED BY <1>5, <2>1 DEF IterateWithoutGps, client, thread
<1>6. CASE ManifestUnusable
  <2>1. result' \in BOOLEAN BY <1>6, Zenon DEF ManifestUnusable, Return
  <2> QED BY <1>6, <2>1 DEF ManifestUnusable, Return, client
<1>7. CASE ManifestUnchanged
  <2>1. result' \in BOOLEAN BY <1>7, Zenon DEF ManifestUnchanged, Return
  <2> QED BY <1>7, <2>1 DEF ManifestUnchanged, Return
<1>8. CASE ManifestChanged
  <2>1. wanted' \subseteq Tiles
    BY <1>8 DEF ManifestChanged, tiles_to_fetch, ManifestOf, TilesOf
  <2> QED BY <1>8, <2>1 DEF ManifestChanged, client
<1>9. CASE FetchTile
  <2>1. roads' \in [Tiles -> Versions] /\ hash' \in [Tiles -> Versions] BY <1>h DEF OInv
  <2> QED BY <1>9, <2>1 DEF FetchTile
<1>10. CASE Prune
  <2>1. roads' \in [Tiles -> Versions] /\ hash' \in [Tiles -> Versions] BY <1>h DEF OInv
  <2> QED BY <1>10, <2>1 DEF Prune
<1>11. CASE Finish
  <2>1. result' \in BOOLEAN BY <1>11, Zenon DEF Finish, Return
  <2>2. group_etag' \in [Groups -> Manifests] BY <1>11 DEF Finish
  <2> QED BY <1>11, <2>1, <2>2 DEF Finish, Return
<1>12. CASE Clear
  <2>1. result' \in BOOLEAN /\ refreshing' \in BOOLEAN BY <1>12, Zenon DEF Clear
  <2> QED BY <1>12, <2>1 DEF Clear
<1>13. CASE UNCHANGED vars
  BY <1>13 DEF vars, client, thread
<1> QED BY <1>1, <1>2, <1>3, <1>4, <1>5, <1>6, <1>7, <1>8, <1>9, <1>10, <1>11, <1>12, <1>13
        DEF Next, Sync

\* Whatever the gateway publishes and withdraws, every manifest the client keeps
\* is one of existing tiles and versions.
THEOREM TypeCorrect == Spec => []TypeOK
<1>1. ASSUME Init PROVE TypeOK
  <2>1. /\ server \in [Tiles -> Versions] /\ last = server
        /\ roads = [t \in Tiles |-> 0] /\ hash = roads
    BY <1>1, OsmAssumption DEF OsmAssumption, Init, Versions
  <2>2. Empty \in Manifests BY <2>1, ManifestTypes
  <2>3. refreshing \in BOOLEAN /\ result \in BOOLEAN /\ faults \in BOOLEAN BY <1>1, Zenon DEF Init
  <2>4. GroupOf[pose] \in Groups /\ 0 \in Versions
    BY <1>1, OsmAssumption DEF OsmAssumption, Init, Groups, Versions
  <2> QED BY <1>1, <2>1, <2>2, <2>3, <2>4 DEF Init, TypeOK
<1>2. TypeOK /\ OInv /\ [Next]_vars => (TypeOK /\ OInv)'
  BY NextTypeOK, StepKeepsOInv
<1>3. Init => OInv BY OInit
<1> QED BY <1>1, <1>2, <1>3, PTL DEF Spec
=============================================================================

---------------------------- MODULE ImportProofs ----------------------------
(***************************************************************************)
(* What the runs of DataImport and AccountImport check of an import, for   *)
(* any assets, chats, versions and number of imports.  First the import    *)
(* itself: nothing that was acknowledged is lost by a load, a flush, an    *)
(* import or its failure, and no older database comes back.  Then the      *)
(* import of an account: it is such an import, so all this holds of it,    *)
(* and its marker on disk and its plan stay what memory takes them for.    *)
(***************************************************************************)
EXTENDS AccountImport, TLAPS

\* The transaction is open from the first batch to the commit or rollback.
TxIsOpen == tx # None <=> imp.pc \in {"stream", "check"}

\* An account's import refuses writes, and once the queue ran out only reads
\* are in it.
AccountIsQuiet ==
    /\ imp.src = "none" <=> imp.pc = "idle"
    /\ imp.pc \in {"drain", "full"} => imp.src = "account"
    /\ imp.src = "account" => blocking
    /\ imp.src = "account" /\ imp.pc # "drain" /\ queued # None
         => queued.kind = "read"

Has(d) == acked.refs \subseteq d.refs /\ acked.chats \subseteq d.chats

\* What memory does not hold is committed.
MemoryOrDisk ==
    /\ cache = None => acked.refs \subseteq disk.db.refs
    /\ store = None => cache = None /\ acked.chats \subseteq disk.db.chats
    /\ timer => store # None

\* A rollback leaves, and a batch commits, all that was acknowledged.
TxKeeps ==
    /\ tx # None => /\ Has(disk.db) /\ Has(tx.db)
                    /\ acked.assets \subseteq tx.assets \ imp.created
    /\ imp.pc \in {"drain", "begin"} => imp.created = {}

\* A load that yields holds it, also when a commit overtakes it.
LoadKeeps ==
    /\ load # None => queued # None /\ ~timer /\ load.db.raw /\ Has(load.db)
    /\ disk.db.raw => NewAssets \subseteq disk.db.refs
    /\ tx # None /\ tx.db.raw => NewAssets \subseteq tx.db.refs
    /\ load # None => NewAssets \subseteq load.db.refs

\* So does the decode after a commit.
DecodeKeeps ==
    /\ imp.pc \in {"swap", "decode"} =>
         acked.refs \subseteq NewAssets /\ acked.chats = {} /\ Has(disk.db)
    /\ imp.pc = "decode" => imp.raw # None /\ (imp.raw.raw => NewAssets \subseteq imp.raw.refs)

KeepsInv ==
    /\ ImportTypeOK /\ TxIsOpen /\ AccountIsQuiet
    /\ ServesAcked /\ AckedIsKept
    /\ MemoryOrDisk /\ TxKeeps /\ LoadKeeps /\ DecodeKeeps

\* Without a late load everything is of the database on disk.
OneGeneration ==
    ~late =>
        /\ cache # None => cache.gen = disk.db.gen
        /\ tx # None => tx.db.gen = disk.db.gen
        /\ load # None => load.db.gen <= disk.db.gen
        /\ imp.pc = "decode" => imp.raw.gen = disk.db.gen

\* The pages know which account's database they may not touch.
Sealed == ~forgot /\ disk.db.by \in Versions

Own(posts) == Sealed => \A post \in posts : post.gen = disk.db.gen

\* A copy of the database on disk, with bodies of its own pages alone.
Fits(d) ==
    /\ d.gen = disk.db.gen /\ d.by = disk.db.by
    /\ Own(d.chats)

OnlyNew ==
    /\ Fits(disk.db)
    /\ tx # None => Fits(tx.db)
    /\ load # None /\ load.db.gen = disk.db.gen => Fits(load.db)
    /\ imp.pc = "decode" => Fits(imp.raw)
    /\ cache # None => cache.gen = disk.db.gen /\ cache.by = disk.db.by
    /\ store # None => Own(store)

\* A page of an older database has no write left in the queue; it was revoked,
\* or the import that will revoke it still refuses its writes.
OldPages ==
    /\ page.base.gen <= disk.db.gen
    /\ Sealed /\ page.base.gen # disk.db.gen =>
         /\ queued # None => queued.kind = "read"
         /\ \/ page.revoked
            \/ imp.src = "account" /\ imp.pc \in {"swap", "decode", "done", "failed"}

SealInv ==
    /\ imp.by \in Versions => imp.src = "account"
    /\ ~late => OnlyNew /\ OldPages

IInv == KeepsInv /\ OneGeneration /\ SealInv

---------------------------------------------------------------------------
(* Types.                                                                  *)

ImportActions == ImportNext \/ AccountSteps \/ RestartsBlocking

LEMMA ConnIsRows == ASSUME ImportTypeOK PROVE Conn \in Rows
  BY DEF ImportTypeOK, Conn

LEMMA PersistedIsRows ==
  ASSUME ImportTypeOK, NEW r \in Rows PROVE Persisted(r) \in Rows
<1> DEFINE cached == [gen |-> cache.gen, by |-> cache.by, raw |-> FALSE,
                      refs |-> cache.refs,
                      chats |-> IF store = None THEN r.db.chats ELSE store]
           added == [r.db EXCEPT !.raw = FALSE, !.chats = r.db.chats \cup store]
<1>1. r.db \in Databases /\ r.db.chats \in SUBSET Posts
  BY DEF Rows, Databases
<1>2. cache # None => cached \in Databases
  BY <1>1 DEF ImportTypeOK, Views, Databases
<1>3. store # None => added \in Databases
  BY <1>1 DEF ImportTypeOK, Databases
<1>4. \A d \in Databases : [r EXCEPT !.db = d] \in Rows
  BY DEF Rows
<1>5. Persisted(r) = [r EXCEPT !.db = IF cache # None THEN cached
                                     ELSE IF store # None THEN added ELSE r.db]
  BY DEF Persisted, Rows
<1> HIDE DEF cached, added
<1> QED BY <1>1, <1>2, <1>3, <1>4, <1>5

LEMMA FlushedIsRows == ASSUME ImportTypeOK PROVE Flushed \in Rows
  BY ConnIsRows, PersistedIsRows DEF Flushed

LEMMA PutType ==
  ASSUME ImportTypeOK, NEW r \in Rows, Put(r)
  PROVE  disk' \in Rows /\ tx' \in Rows \cup {None}
  BY DEF ImportTypeOK, Put

LEMMA DecodedType ==
  ASSUME ImportTypeOK, NEW r \in Rows, NEW d \in Databases,
         NEW cached \in BOOLEAN, Decoded(r, d, cached)
  PROVE  /\ disk' \in Rows /\ tx' \in Rows \cup {None}
         /\ cache' \in Views \cup {None}
         /\ store' \in (SUBSET Posts) \cup {None}
<1>1. cache' \in Views \cup {None} /\ store' \in (SUBSET Posts) \cup {None}
  BY DEF Decoded, ImportTypeOK, ViewOf, Views, Databases
<1>2. [r EXCEPT !.db = [d EXCEPT !.raw = FALSE]] \in Rows
  BY DEF Rows, Databases
<1> QED BY <1>1, <1>2, PutType DEF Decoded

LEMMA InitType == ImportInit => ImportTypeOK
<1> SUFFICES ASSUME ImportInit PROVE ImportTypeOK
  OBVIOUS
<1>1. 0 \in Gens /\ 0 \in 0..MaxFaults
  BY ImportAssumption DEF Gens
<1>2. FirstDb \in Databases /\ ViewOf(FirstDb) \in Views
  BY <1>1, ImportAssumption DEF FirstDb, ViewOf, Databases, Views, Origins
<1>3. disk \in Rows /\ page \in Pages
  BY <1>2, ImportAssumption DEF ImportInit, Rows, Pages
<1>4. imp \in Imports
  BY DEF ImportInit, NoImport, Imports, Stages, Sources, Origins
<1>5. acked \in [refs: SUBSET Assets, chats: SUBSET Posts, assets: SUBSET Assets]
  BY ImportAssumption DEF ImportInit
<1> QED BY <1>1, <1>3, <1>4, <1>5 DEF ImportInit, ImportTypeOK

LEMMA FaultType == ImportTypeOK /\ Fault => faults' \in 0..MaxFaults
  BY ImportAssumption DEF ImportTypeOK, Fault

LEMMA GenType ==
  ASSUME ImportTypeOK
  PROVE  disk.db \in Databases /\ disk.db.gen \in Gens /\ Gens \subseteq Nat
  BY ImportAssumption DEF ImportTypeOK, Rows, Databases, Gens

LEMMA TypeStep ==
  ASSUME ImportTypeOK, TxIsOpen, DecodeKeeps, [ImportActions]_importVars
  PROVE  ImportTypeOK'
<1> USE DEF rows, memory, ghosts
<1>1. ASSUME NEW r \in Requests, Arrives(r) PROVE ImportTypeOK'
  BY <1>1 DEF Arrives, ImportTypeOK
<1>2. CASE ColdLoad
  <2> DEFINE r == IF NeedsCache THEN Flushed ELSE Conn
  <2>1. r \in Rows /\ r.db \in Databases
    BY ConnIsRows, FlushedIsRows DEF Rows
  <2>2. NeedsCache \in BOOLEAN
    BY DEF NeedsCache
  <2>3. timer' \in BOOLEAN
    BY <1>2, <2>2 DEF ColdLoad, LoadsFor, ImportTypeOK
  <2>4. CASE r.db.raw
    <3>1. load' \in Loads
      BY <1>2, <2>1, <2>2, <2>4 DEF ColdLoad, LoadsFor, Loads
    <3>2. disk' \in Rows /\ tx' \in Rows \cup {None}
      BY <1>2, <2>1, <2>4, PutType DEF ColdLoad, LoadsFor
    <3> HIDE DEF r
    <3>3. cache' = cache /\ store' = store
      BY <1>2, <2>4 DEF ColdLoad, LoadsFor, r
    <3> QED BY <1>2, <2>3, <3>1, <3>2, <3>3 DEF ColdLoad, ImportTypeOK
  <2>5. CASE ~r.db.raw
    <3>1. Decoded(r, r.db, NeedsCache) /\ load' = load
      BY <1>2, <2>5 DEF ColdLoad, LoadsFor
    <3> HIDE DEF r
    <3>2. /\ disk' \in Rows /\ tx' \in Rows \cup {None}
          /\ cache' \in Views \cup {None}
          /\ store' \in (SUBSET Posts) \cup {None}
      BY <2>1, <2>2, <3>1, DecodedType
    <3> QED BY <1>2, <2>3, <3>1, <3>2 DEF ColdLoad, ImportTypeOK
  <2> QED BY <2>4, <2>5
<1>3. CASE LoadEnds
  <2>1. load.db \in Databases /\ load.cached \in BOOLEAN
    BY <1>3 DEF LoadEnds, ImportTypeOK, Loads
  <2>2. /\ disk' \in Rows /\ tx' \in Rows \cup {None}
        /\ cache' \in Views \cup {None}
        /\ store' \in (SUBSET Posts) \cup {None}
    BY <1>3, <2>1, ConnIsRows, DecodedType DEF LoadEnds
  <2>3. late' \in BOOLEAN /\ load' = None
    BY <1>3 DEF LoadEnds, ImportTypeOK
  <2> QED BY <1>3, <2>2, <2>3 DEF LoadEnds, ImportTypeOK
<1>4. CASE RunAsset
  <2>1. queued.what \in Assets
    BY <1>4 DEF RunAsset, Wanting, ImportTypeOK, Requests
  <2>2. [Conn EXCEPT !.assets = @ \cup {queued.what}] \in Rows
    BY <2>1, ConnIsRows DEF Rows
  <2>3. disk' \in Rows /\ tx' \in Rows \cup {None}
    BY <1>4, <2>2, PutType DEF RunAsset
  <2>4. page' \in Pages
    BY <1>4, <2>1 DEF RunAsset, ImportTypeOK, Pages
  <2>5. acked' \in [refs: SUBSET Assets, chats: SUBSET Posts, assets: SUBSET Assets]
    BY <1>4, <2>1 DEF RunAsset, ImportTypeOK
  <2> QED BY <1>4, <2>3, <2>4, <2>5 DEF RunAsset, ImportTypeOK
<1>5. CASE RunPatch
  <2>1. queued.what \in Assets /\ cache \in Views
    BY <1>5 DEF RunPatch, Wanting, ImportTypeOK, Requests
  <2>2. cache' \in Views
    BY <1>5, <2>1 DEF RunPatch, Views
  <2>3. page' \in Pages
    BY <1>5, <2>2 DEF RunPatch, ImportTypeOK, Pages
  <2>4. acked' \in [refs: SUBSET Assets, chats: SUBSET Posts, assets: SUBSET Assets]
    BY <1>5, <2>1 DEF RunPatch, ImportTypeOK
  <2> QED BY <1>5, <2>2, <2>3, <2>4 DEF RunPatch, ImportTypeOK
<1>6. CASE RunPost
  <2> DEFINE post == [gen |-> page.base.gen, chat |-> queued.what]
  <2>1. post \in Posts
    BY <1>6 DEF RunPost, Wanting, ImportTypeOK, Requests, Posts, Pages, Views
  <2> HIDE DEF post
  <2>2. store' \in SUBSET Posts
    BY <1>6, <2>1 DEF RunPost, ImportTypeOK, post
  <2>3. acked' \in [refs: SUBSET Assets, chats: SUBSET Posts, assets: SUBSET Assets]
    BY <1>6, <2>1 DEF RunPost, ImportTypeOK, post
  <2> QED BY <1>6, <2>2, <2>3 DEF RunPost, ImportTypeOK
<1>7. CASE RunRead
  <2>1. page' \in Pages
    BY <1>7 DEF RunRead, ImportTypeOK, Pages
  <2> QED BY <1>7, <2>1 DEF RunRead, ImportTypeOK
<1>8. CASE TimerFires
  BY <1>8, ConnIsRows, PersistedIsRows, PutType DEF TimerFires, ImportTypeOK
<1>9. CASE UploadStarts \/ Drained \/ NoRoom \/ StreamEnds \/ SwapFails \/ UploadEnds
  <2>1. NoImport \in Imports
    BY DEF NoImport, Imports, Stages, Sources, Origins
  <2>2. UploadStarts => imp' \in Imports
    BY <2>1, ImportAssumption DEF UploadStarts, Imports, Stages, Sources
  <2>3. UploadEnds => imp' \in Imports
    BY <2>1 DEF UploadEnds
  <2>4. Drained \/ NoRoom \/ StreamEnds \/ SwapFails => imp' \in Imports
    BY DEF Drained, NoRoom, StreamEnds, SwapFails, Imports, Stages, ImportTypeOK
  <2> QED
    BY <1>9, <2>2, <2>3, <2>4, FaultType
       DEF UploadStarts, Drained, NoRoom, StreamEnds, SwapFails, UploadEnds,
           ImportTypeOK
<1>10. CASE Begins
  <2>1. imp' \in Imports
    BY <1>10 DEF Begins, Imports, Stages, ImportTypeOK
  <2> QED BY <1>10, <2>1, FlushedIsRows DEF Begins, ImportTypeOK
<1>11. ASSUME NEW a \in Assets, Streams(a) PROVE ImportTypeOK'
  <2>1. tx' \in Rows \cup {None} /\ disk' \in Rows
    BY <1>11, NoneAssumption DEF Streams, ImportTypeOK, Rows, TxIsOpen
  <2>2. imp' \in Imports
    BY <1>11 DEF Streams, Imports, ImportTypeOK
  <2> QED BY <1>11, <2>1, <2>2 DEF Streams, ImportTypeOK
<1>12. CASE Commits
  <2>1. disk' \in Rows
    BY <1>12, ImportAssumption, GenType
       DEF Commits, Imported, Rows, Databases, Gens, Imports, ImportTypeOK
  <2>2. imp' \in Imports
    BY <1>12 DEF Commits, Imports, Stages, ImportTypeOK
  <2>3. acked' \in [refs: SUBSET Assets, chats: SUBSET Posts, assets: SUBSET Assets]
    BY <1>12, ImportAssumption DEF Commits, Imports, ImportTypeOK
  <2> QED BY <1>12, <2>1, <2>2, <2>3 DEF Commits, ImportTypeOK
<1>13. CASE Swaps
  <2>1. imp' \in Imports
    BY <1>13, ConnIsRows DEF Swaps, Imports, Stages, Rows, ImportTypeOK
  <2> QED BY <1>13, <2>1 DEF Swaps, ImportTypeOK
<1>14. CASE DecodeEnds
  <2>1. imp.raw \in Databases
    BY <1>14 DEF DecodeEnds, DecodeKeeps, Imports, ImportTypeOK
  <2>2. /\ disk' \in Rows /\ tx' \in Rows \cup {None}
        /\ cache' \in Views \cup {None}
        /\ store' \in (SUBSET Posts) \cup {None}
    BY <1>14, <2>1, ConnIsRows, DecodedType DEF DecodeEnds
  <2>3. imp' \in Imports
    BY <1>14 DEF DecodeEnds, Imports, Stages, ImportTypeOK
  <2> QED BY <1>14, <2>2, <2>3 DEF DecodeEnds, ImportTypeOK
<1>15. CASE Fails
  <2>1. disk' \in Rows
    BY <1>15 DEF Fails, ImportTypeOK, Rows
  <2>2. imp' \in Imports
    BY <1>15 DEF Fails, Imports, Stages, ImportTypeOK
  <2> QED BY <1>15, <2>1, <2>2, FaultType DEF Fails, ImportTypeOK
<1>16. CASE Restarts /\ blocking' \in BOOLEAN
  <2>1. imp' \in Imports
    BY <1>16 DEF Restarts, NoImport, Imports, Stages, Sources, Origins
  <2>2. page' \in Pages /\ forgot' \in BOOLEAN
    BY <1>16 DEF Restarts, Pages, ImportTypeOK
  <2>3. acked' \in [refs: SUBSET Assets, chats: SUBSET Posts, assets: SUBSET Assets]
    BY <1>16 DEF Restarts, ImportTypeOK
  <2> QED BY <1>16, <2>1, <2>2, <2>3, FaultType DEF Restarts, ImportTypeOK
<1>17. CASE AccountBlocks \/ AccountUnblocks
  BY <1>17 DEF AccountBlocks, AccountUnblocks, ImportTypeOK
<1>18. ASSUME NEW v \in Versions, NEW plan \in SUBSET NewAssets, AccountApplies(v, plan)
       PROVE  ImportTypeOK'
  <2>1. imp' \in Imports
    BY <1>18, ImportAssumption
       DEF AccountApplies, NoImport, Imports, Stages, Sources, Origins
  <2> QED BY <1>18, <2>1 DEF AccountApplies, ImportTypeOK
<1>19. CASE AccountReturns
  <2>1. imp' \in Imports
    BY <1>19 DEF AccountReturns, NoImport, Imports, Stages, Sources, Origins
  <2>2. page' \in Pages /\ blocking' \in BOOLEAN
    BY <1>19 DEF AccountReturns, Revoked, Pages, ImportTypeOK
  <2> QED BY <1>19, <2>1, <2>2 DEF AccountReturns, ImportTypeOK
<1>20. CASE UNCHANGED importVars
  BY <1>20 DEF importVars, ImportTypeOK
<1> QED
  BY <1>1, <1>2, <1>3, <1>4, <1>5, <1>6, <1>7, <1>8, <1>9, <1>10, <1>11, <1>12,
     <1>13, <1>14, <1>15, <1>16, <1>17, <1>18, <1>19, <1>20
     DEF ImportActions, ImportNext, QueueSteps, ImportSteps, AccountSteps,
         RestartsBlocking

---------------------------------------------------------------------------
(* Nothing acknowledged is lost.                                           *)

LEMMA PersistedHas ==
  ASSUME KeepsInv
  PROVE  /\ Has(Persisted(Conn).db)
         /\ Persisted(Conn).assets = Conn.assets
         /\ Persisted(Conn).db.raw => NewAssets \subseteq Persisted(Conn).db.refs
<1> DEFINE r == Conn
<1> USE DEF KeepsInv
<1>1. r \in Rows /\ r.db \in Databases
  BY ConnIsRows DEF Rows
<1>2. /\ cache = None => acked.refs \subseteq r.db.refs
      /\ store = None => acked.chats \subseteq r.db.chats
      /\ r.db.raw => NewAssets \subseteq r.db.refs
  BY DEF MemoryOrDisk, TxKeeps, LoadKeeps, Conn, Has
<1>3. cache # None => acked.refs \subseteq cache.refs
  BY DEF ServesAcked
<1>4. store # None => acked.chats \subseteq store
  BY DEF ServesAcked
<1> HIDE DEF r, KeepsInv
<1> DEFINE Good(d) == Has(d) /\ (d.raw => NewAssets \subseteq d.refs)
<1>5. Persisted(r).assets = r.assets
  BY <1>1 DEF Persisted, Rows
<1>6. ASSUME cache # None PROVE Good(Persisted(r).db)
  BY <1>1, <1>2, <1>3, <1>4, <1>6 DEF Persisted, Rows, Has
<1>7. ASSUME cache = None, store # None PROVE Good(Persisted(r).db)
  <2>1. Persisted(r).db = [r.db EXCEPT !.raw = FALSE, !.chats = @ \cup store]
    BY <1>1, <1>7 DEF Persisted, Rows
  <2>2. /\ Persisted(r).db.refs = r.db.refs /\ Persisted(r).db.raw = FALSE
        /\ Persisted(r).db.chats = r.db.chats \cup store
    BY <1>1, <2>1 DEF Databases
  <2> QED BY <1>2, <1>4, <1>7, <2>2 DEF Has
<1>8. ASSUME cache = None, store = None PROVE Good(Persisted(r).db)
  BY <1>1, <1>2, <1>8 DEF Persisted, Rows, Has
<1>9. Good(Persisted(r).db)
  BY <1>6, <1>7, <1>8
<1> QED BY <1>5, <1>9 DEF r

LEMMA ConnHas ==
  ASSUME KeepsInv
  PROVE  /\ (~timer \/ tx # None \/ store = None) => Has(Conn.db)
         /\ Conn.db.raw => NewAssets \subseteq Conn.db.refs
  BY DEF KeepsInv, AckedIsKept, MemoryOrDisk, TxKeeps, LoadKeeps, Conn, Has

LEMMA FlushedHas ==
  ASSUME KeepsInv
  PROVE  /\ Has(Flushed.db) /\ Flushed.assets = Conn.assets
         /\ Flushed.db.raw => NewAssets \subseteq Flushed.db.refs
  BY PersistedHas, ConnHas DEF Flushed

\* What the rows hold after a write that keeps everything.
RowsHave ==
    /\ Has(disk.db) /\ acked.assets \subseteq disk.assets
    /\ disk.db.raw => NewAssets \subseteq disk.db.refs
    /\ tx # None => /\ Has(tx.db) /\ acked.assets \subseteq tx.assets \ imp.created
                    /\ tx.db.raw => NewAssets \subseteq tx.db.refs

LEMMA PutHas ==
  ASSUME KeepsInv, NEW r \in Rows, Put(r), Has(r.db), r.assets = Conn.assets,
         r.db.raw => NewAssets \subseteq r.db.refs,
         acked' = acked, imp'.created = imp.created
  PROVE  RowsHave' /\ (tx' = None <=> tx = None)
<1> USE DEF KeepsInv
<1>1. CASE tx = None
  BY <1>1 DEF Put, RowsHave, Has, Conn, AckedIsKept
<1>2. CASE tx # None
  BY <1>2, NoneAssumption DEF Put, RowsHave, Has, Conn, AckedIsKept, TxKeeps, LoadKeeps
<1> QED BY <1>1, <1>2

LEMMA DecodedHas ==
  ASSUME KeepsInv, NEW r \in Rows, NEW d \in Databases, NEW cached \in BOOLEAN,
         Decoded(r, d, cached), Has(r.db), r.assets = Conn.assets,
         r.db.raw => NewAssets \subseteq r.db.refs,
         cached \/ d.raw => acked.refs \subseteq d.refs,
         acked.chats \subseteq d.chats,
         acked' = acked, imp'.created = imp.created
  PROVE  /\ RowsHave' /\ (tx' = None <=> tx = None)
         /\ ServesAcked' /\ store' # None
<1>1. ServesAcked' /\ store' # None
  BY NoneAssumption
     DEF KeepsInv, Decoded, ServesAcked, ViewOf, Has, Databases
<1> DEFINE w == [r EXCEPT !.db = [d EXCEPT !.raw = FALSE]]
<1>2. /\ w \in Rows /\ w.assets = Conn.assets /\ ~w.db.raw
      /\ d.raw => Has(w.db)
  BY DEF Rows, Databases, Has
<1>3. CASE Put(r)
  BY <1>1, <1>3, PutHas
<1>4. CASE d.raw /\ Put(w)
  <2> HIDE DEF w
  <2> QED BY <1>1, <1>2, <1>4, PutHas
<1> QED BY <1>3, <1>4 DEF Decoded

---------------------------------------------------------------------------
(* The transaction, and who may write.                                     *)

LEMMA PutOpen ==
  ASSUME NEW r \in Rows, Put(r)
  PROVE  tx' = None <=> tx = None
  BY NoneAssumption DEF Put

LEMMA DecodedOpen ==
  ASSUME NEW r \in Rows, NEW d \in Databases, NEW cached, Decoded(r, d, cached)
  PROVE  tx' = None <=> tx = None
<1>1. [r EXCEPT !.db = [d EXCEPT !.raw = FALSE]] \in Rows
  BY DEF Rows, Databases
<1> QED BY <1>1, PutOpen DEF Decoded

\* A step that leaves the import where it is neither opens nor closes it.
LEMMA TxStep ==
  ASSUME ImportTypeOK, TxIsOpen, AccountIsQuiet, DecodeKeeps,
         [ImportActions]_importVars
  PROVE  TxIsOpen'
<1> USE DEF rows, memory, ghosts
<1>1. CASE imp' = imp /\ (tx' = None <=> tx = None)
  BY <1>1 DEF TxIsOpen
<1>2. CASE tx' = tx /\ imp.pc \notin {"stream", "check"}
                    /\ imp'.pc \notin {"stream", "check"}
  BY <1>2 DEF TxIsOpen
<1>3. ASSUME NEW r \in Requests, Arrives(r) PROVE TxIsOpen'
  BY <1>3, <1>1 DEF Arrives
<1>4. CASE ColdLoad
  <2> DEFINE r == IF NeedsCache THEN Flushed ELSE Conn
  <2>1. r \in Rows /\ r.db \in Databases
    BY ConnIsRows, FlushedIsRows DEF Rows
  <2>2. r.db.raw \/ ~r.db.raw
    OBVIOUS
  <2>3. r.db.raw => Put(r)
    BY <1>4 DEF ColdLoad, LoadsFor
  <2>4. ~r.db.raw => Decoded(r, r.db, NeedsCache)
    BY <1>4 DEF ColdLoad, LoadsFor
  <2> HIDE DEF r
  <2> QED BY <1>4, <1>1, <2>1, <2>2, <2>3, <2>4, PutOpen, DecodedOpen DEF ColdLoad
<1>5. CASE LoadEnds
  <2>1. load.db \in Databases
    BY <1>5 DEF LoadEnds, ImportTypeOK, Loads
  <2> QED BY <1>5, <1>1, <2>1, ConnIsRows, DecodedOpen DEF LoadEnds
<1>6. CASE RunAsset
  <2>1. [Conn EXCEPT !.assets = @ \cup {queued.what}] \in Rows
    BY <1>6, ConnIsRows DEF Rows, RunAsset, Wanting, ImportTypeOK, Requests
  <2> QED BY <1>6, <1>1, <2>1, PutOpen DEF RunAsset
<1>7. CASE RunPatch \/ RunPost \/ RunRead
  BY <1>7, <1>1 DEF RunPatch, RunPost, RunRead
<1>8. CASE TimerFires
  BY <1>8, <1>1, ConnIsRows, PersistedIsRows, PutOpen DEF TimerFires
<1>9. CASE UploadStarts \/ Drained \/ NoRoom \/ SwapFails \/ UploadEnds \/ Swaps
  <2>1. tx' = tx
    BY <1>9 DEF UploadStarts, Drained, NoRoom, SwapFails, UploadEnds, Swaps
  <2>2. imp.pc \notin {"stream", "check"}
    BY <1>9
       DEF UploadStarts, Drained, NoRoom, SwapFails, UploadEnds, Swaps, NoImport
  <2>3. CASE UploadStarts \/ UploadEnds
    <3>1. imp'.pc \in {"begin", "idle"}
      <4>1. /\ NoImport.pc = "idle"
            /\ [NoImport EXCEPT !.pc = "begin", !.src = "upload",
                                !.plan = NewAssets].pc = "begin"
        BY DEF NoImport
      <4>2. CASE UploadStarts
        BY <4>1, <4>2 DEF UploadStarts
      <4>3. CASE UploadEnds
        BY <4>1, <4>3 DEF UploadEnds
      <4> QED BY <2>3, <4>2, <4>3
    <3> QED BY <1>2, <2>1, <2>2, <3>1
  <2>4. CASE Drained \/ NoRoom \/ SwapFails \/ Swaps
    <3>1. imp'.pc \in {"begin", "full", "failed", "decode"}
      BY <2>4 DEF Drained, NoRoom, SwapFails, Swaps, ImportTypeOK, Imports
    <3> QED BY <1>2, <2>1, <2>2, <3>1
  <2> QED BY <1>9, <2>3, <2>4
<1>10. CASE Begins
  BY <1>10, FlushedIsRows, NoneAssumption DEF Begins, TxIsOpen, ImportTypeOK, Imports
<1>11. ASSUME NEW a \in Assets, Streams(a) PROVE TxIsOpen'
  <2>1. [tx EXCEPT !.assets = @ \cup {a}] \in Rows
    BY <1>11 DEF Streams, TxIsOpen, ImportTypeOK, Rows
  <2> QED BY <1>11, <2>1, NoneAssumption DEF Streams, TxIsOpen, ImportTypeOK, Imports
<1>12. CASE StreamEnds
  BY <1>12 DEF StreamEnds, TxIsOpen, ImportTypeOK, Imports
<1>13. CASE Commits \/ Fails
  BY <1>13 DEF Commits, Fails, TxIsOpen, ImportTypeOK, Imports
<1>14. CASE DecodeEnds
  <2>1. imp.raw \in Databases
    BY <1>14 DEF DecodeEnds, DecodeKeeps, Imports, ImportTypeOK
  <2>2. tx' = None <=> tx = None
    BY <1>14, <2>1, ConnIsRows, DecodedOpen DEF DecodeEnds
  <2> QED BY <1>14, <2>2 DEF DecodeEnds, TxIsOpen, ImportTypeOK, Imports
<1>15. CASE Restarts
  BY <1>15 DEF Restarts, TxIsOpen, NoImport
<1>16. CASE AccountBlocks \/ AccountUnblocks
  BY <1>16, <1>1 DEF AccountBlocks, AccountUnblocks
<1>17. ASSUME NEW v \in Versions, NEW plan \in SUBSET NewAssets, AccountApplies(v, plan)
       PROVE  TxIsOpen'
  BY <1>17, <1>2 DEF AccountApplies, NoImport
<1>18. CASE AccountReturns
  BY <1>18, <1>2 DEF AccountReturns, NoImport
<1>19. CASE UNCHANGED importVars
  BY <1>19, <1>1 DEF importVars
<1> QED
  BY <1>3, <1>4, <1>5, <1>6, <1>7, <1>8, <1>9, <1>10, <1>11, <1>12, <1>13,
     <1>14, <1>15, <1>16, <1>17, <1>18, <1>19
     DEF ImportActions, ImportNext, QueueSteps, ImportSteps, AccountSteps,
         RestartsBlocking

\* Once the queue has run out no page puts a write into it.
LEMMA QuietStep ==
  ASSUME ImportTypeOK, AccountIsQuiet, [ImportActions]_importVars
  PROVE  AccountIsQuiet'
<1> USE DEF rows, memory, ghosts
<1>1. CASE imp' = imp /\ (blocking' = blocking) /\ queued' \in {queued, None}
  BY <1>1 DEF AccountIsQuiet
<1>2. ASSUME NEW r \in Requests, Arrives(r) PROVE AccountIsQuiet'
  BY <1>2 DEF Arrives, Admitted, AccountIsQuiet
<1>3. CASE QueueSteps \/ TimerFires
  BY <1>3, <1>1
     DEF QueueSteps, ColdLoad, LoadEnds, RunAsset, RunPatch, RunPost, RunRead,
         TimerFires
<1>4. CASE UploadStarts
  BY <1>4 DEF UploadStarts, NoImport, AccountIsQuiet
<1>5. CASE Drained \/ NoRoom
  BY <1>5 DEF Drained, NoRoom, AccountIsQuiet, ImportTypeOK, Imports
<1>6. CASE Begins \/ (\E a \in Assets : Streams(a)) \/ StreamEnds \/ Commits
            \/ Swaps \/ DecodeEnds \/ Fails \/ SwapFails
  <2>1. /\ imp'.src = imp.src /\ imp.pc \notin {"idle", "drain", "full"}
        /\ imp'.pc \notin {"idle", "drain", "full"}
        /\ UNCHANGED <<queued, blocking>>
    BY <1>6
       DEF Begins, Streams, StreamEnds, Commits, Swaps, DecodeEnds, Fails,
           SwapFails, ImportTypeOK, Imports
  <2> QED BY <2>1 DEF AccountIsQuiet
<1>7. CASE UploadEnds \/ AccountReturns \/ Restarts
  BY <1>7 DEF UploadEnds, AccountReturns, Restarts, NoImport, AccountIsQuiet
<1>8. CASE AccountBlocks \/ AccountUnblocks
  BY <1>8 DEF AccountBlocks, AccountUnblocks, AccountIsQuiet
<1>9. ASSUME NEW v \in Versions, NEW plan \in SUBSET NewAssets, AccountApplies(v, plan)
      PROVE  AccountIsQuiet'
  BY <1>9 DEF AccountApplies, NoImport, AccountIsQuiet
<1>10. CASE UNCHANGED importVars
  BY <1>10, <1>1 DEF importVars
<1> QED
  BY <1>2, <1>3, <1>4, <1>5, <1>6, <1>7, <1>8, <1>9, <1>10
     DEF ImportActions, ImportNext, QueueSteps, ImportSteps, AccountSteps,
         RestartsBlocking

---------------------------------------------------------------------------
(* Every step keeps it.                                                    *)

Kept ==
    /\ ServesAcked /\ AckedIsKept /\ MemoryOrDisk
    /\ TxKeeps /\ LoadKeeps /\ DecodeKeeps

\* When the rows hold everything, memory and the import have little to show.
LEMMA KeptByRows ==
  ASSUME RowsHave', ServesAcked', (store = None => cache = None)',
         (timer => store # None)', LoadKeeps,
         (load # None => /\ queued # None /\ ~timer /\ load.db.raw
                         /\ Has(load.db) /\ NewAssets \subseteq load.db.refs)',
         (imp.pc \in {"drain", "begin"} => imp.created = {})',
         (imp.pc \in {"swap", "decode"} =>
            acked.refs \subseteq NewAssets /\ acked.chats = {})',
         (imp.pc = "decode" =>
            imp.raw # None /\ (imp.raw.raw => NewAssets \subseteq imp.raw.refs))'
  PROVE  Kept'
  BY DEF Kept, RowsHave, Has, AckedIsKept, MemoryOrDisk, TxKeeps, LoadKeeps,
         DecodeKeeps

\* A request that counts never meets an open transaction or a commit.
LEMMA QuietImport ==
  ASSUME KeepsInv, queued # None, queued.kind # "read", Counts
  PROVE  tx = None /\ imp.pc \notin {"swap", "decode"}
<1>1. imp.src \in Sources
  BY DEF KeepsInv, ImportTypeOK, Imports
<1> QED BY <1>1 DEF KeepsInv, TxIsOpen, AccountIsQuiet, Counts, Sources

LEMMA KeptByLoads ==
  ASSUME KeepsInv, ColdLoad \/ LoadEnds
  PROVE  Kept'
<1> USE DEF rows, memory, ghosts
<1>1. imp' = imp /\ acked' = acked /\ imp'.created = imp.created
  BY DEF ColdLoad, LoadEnds
<1>2. /\ (imp.pc \in {"drain", "begin"} => imp.created = {})'
      /\ (imp.pc \in {"swap", "decode"} =>
            acked.refs \subseteq NewAssets /\ acked.chats = {})'
      /\ (imp.pc = "decode" =>
            imp.raw # None /\ (imp.raw.raw => NewAssets \subseteq imp.raw.refs))'
  BY <1>1 DEF KeepsInv, TxKeeps, DecodeKeeps
<1>3. ImportTypeOK /\ LoadKeeps /\ ServesAcked /\ MemoryOrDisk
  BY DEF KeepsInv
<1>4. CASE ColdLoad
  <2> DEFINE r == IF NeedsCache THEN Flushed ELSE Conn
  <2>1. r \in Rows /\ r.db \in Databases
    BY <1>3, ConnIsRows, FlushedIsRows DEF Rows
  <2>2. ~NeedsCache => store = None
    BY <1>4 DEF ColdLoad, NeedsStore
  <2>3. /\ Has(r.db) /\ r.assets = Conn.assets
        /\ r.db.raw => NewAssets \subseteq r.db.refs
    BY <2>2, FlushedHas, ConnHas
  <2>4. ~timer'
    BY <1>3, <1>4, <2>2 DEF ColdLoad, LoadsFor, MemoryOrDisk, ImportTypeOK
  <2>5. load = None /\ queued' = queued /\ queued # None
    BY <1>4 DEF ColdLoad, Wanting
  <2>6. NeedsCache \in BOOLEAN
    BY DEF NeedsCache
  <2>7. CASE r.db.raw
    <3>1. /\ Put(r) /\ load' = [cached |-> NeedsCache, db |-> r.db]
          /\ cache' = cache /\ store' = store
      BY <1>4, <2>7 DEF ColdLoad, LoadsFor
    <3> HIDE DEF r
    <3>2. RowsHave'
      BY <1>1, <2>1, <2>3, <3>1, PutHas
    <3>3. load'.db = r.db
      BY <3>1
    <3>4. Has(load.db)' /\ (NewAssets \subseteq load.db.refs)' /\ load'.db.raw
      BY <1>1, <2>3, <2>7, <3>3 DEF Has, r
    <3>5. ServesAcked' /\ (store = None => cache = None)'
      BY <1>1, <1>3, <3>1 DEF ServesAcked, MemoryOrDisk
    <3> QED BY <1>2, <1>3, <2>4, <2>5, <3>2, <3>4, <3>5, KeptByRows
  <2>8. CASE ~r.db.raw
    <3>1. Decoded(r, r.db, NeedsCache) /\ load' = load
      BY <1>4, <2>8 DEF ColdLoad, LoadsFor
    <3> HIDE DEF r
    <3>2. RowsHave' /\ ServesAcked' /\ store' # None
      BY <1>1, <2>1, <2>3, <2>6, <3>1, DecodedHas DEF Has
    <3> QED BY <1>2, <1>3, <2>4, <2>5, <3>1, <3>2, KeptByRows
  <2> QED BY <2>7, <2>8
<1>5. CASE LoadEnds
  <2>1. /\ load.db \in Databases /\ load.cached \in BOOLEAN
        /\ Decoded(Conn, load.db, load.cached) /\ timer' = timer /\ load' = None
    BY <1>3, <1>5 DEF LoadEnds, ImportTypeOK, Loads
  <2>2. ~timer /\ Has(load.db)
    BY <1>3, <1>5 DEF LoadEnds, LoadKeeps
  <2>3. Has(Conn.db) /\ (Conn.db.raw => NewAssets \subseteq Conn.db.refs)
    BY <2>2, ConnHas
  <2>4. RowsHave' /\ ServesAcked' /\ store' # None
    BY <1>1, <1>3, <2>1, <2>2, <2>3, ConnIsRows, DecodedHas DEF Has
  <2> QED BY <1>2, <1>3, <2>1, <2>2, <2>4, KeptByRows
<1> QED BY <1>4, <1>5

LEMMA KeptByRequests ==
  ASSUME KeepsInv, RunAsset \/ RunPatch \/ RunPost \/ RunRead \/ TimerFires
  PROVE  Kept'
<1> USE DEF rows, memory, ghosts
<1>1. /\ ImportTypeOK /\ TxIsOpen /\ ServesAcked /\ AckedIsKept
      /\ MemoryOrDisk /\ TxKeeps /\ LoadKeeps /\ DecodeKeeps
  BY DEF KeepsInv
<1>2. load = None /\ imp' = imp /\ load' = load
  BY DEF RunAsset, RunPatch, RunPost, RunRead, TimerFires, Wanting
<1>3. CASE RunAsset
  <2> DEFINE r == [Conn EXCEPT !.assets = @ \cup {queued.what}]
  <2>1. r \in Rows /\ r.db = Conn.db /\ r.assets = Conn.assets \cup {queued.what}
    BY <1>1, <1>3, ConnIsRows DEF Rows, RunAsset, Wanting, ImportTypeOK, Requests
  <2>2. Put(r) /\ UNCHANGED <<cache, store, timer>>
    BY <1>3 DEF RunAsset
  <2>3. /\ acked'.refs = acked.refs /\ acked'.chats = acked.chats
        /\ acked'.assets \in {acked.assets, acked.assets \cup {queued.what}}
        /\ ~Counts => acked' = acked
    BY <1>1, <1>3 DEF RunAsset, ImportTypeOK
  <2>4. queued # None /\ queued.kind # "read"
    BY <1>3 DEF RunAsset, Wanting
  <2> HIDE DEF r
  <2>5. CASE tx = None
    <3>1. disk' = r /\ tx' = None /\ Conn = disk
      BY <2>2, <2>5 DEF Put, Conn
    <3>2. ServesAcked' /\ AckedIsKept' /\ MemoryOrDisk'
      BY <1>1, <2>1, <2>2, <2>3, <3>1 DEF ServesAcked, AckedIsKept, MemoryOrDisk
    <3>3. TxKeeps' /\ LoadKeeps' /\ DecodeKeeps'
      BY <1>1, <1>2, <2>1, <2>3, <3>1 DEF TxKeeps, LoadKeeps, DecodeKeeps, Has
    <3> QED BY <3>2, <3>3 DEF Kept
  <2>6. CASE tx # None
    <3>1. tx' = r /\ disk' = disk /\ Conn = tx /\ acked' = acked
      BY <2>2, <2>3, <2>4, <2>6, QuietImport DEF Put, Conn
    <3>2. ServesAcked' /\ AckedIsKept' /\ MemoryOrDisk'
      BY <1>1, <2>2, <3>1 DEF ServesAcked, AckedIsKept, MemoryOrDisk
    <3>3. TxKeeps' /\ LoadKeeps' /\ DecodeKeeps'
      BY <1>1, <1>2, <2>1, <2>6, <3>1 DEF TxKeeps, LoadKeeps, DecodeKeeps, Has
    <3> QED BY <3>2, <3>3 DEF Kept
  <2> QED BY <2>5, <2>6
<1>4. CASE RunPatch
  <2>1. /\ UNCHANGED rows /\ store' = store /\ store # None
        /\ cache # None /\ cache \in Views /\ queued # None /\ queued.kind # "read"
    BY <1>1, <1>4 DEF RunPatch, Wanting, MemoryOrDisk, ImportTypeOK
  <2>2. CASE page.base = cache
    <3>1. /\ cache' \in Views /\ cache'.refs = cache.refs \cup {queued.what}
          /\ timer'
      BY <1>1, <1>4, <2>1, <2>2 DEF RunPatch, Views, Wanting, ImportTypeOK, Requests
    <3>2. /\ acked'.chats = acked.chats /\ acked'.assets = acked.assets
          /\ acked'.refs \subseteq acked.refs \cup {queued.what}
          /\ ~Counts => acked' = acked
      BY <1>1, <1>4, <2>2 DEF RunPatch, ImportTypeOK
    <3>3. ServesAcked' /\ AckedIsKept' /\ MemoryOrDisk'
      BY <1>1, <2>1, <3>1, <3>2, NoneAssumption
         DEF ServesAcked, AckedIsKept, MemoryOrDisk
    <3>4. CASE acked' = acked
      BY <1>1, <1>2, <2>1, <3>3, <3>4 DEF Kept, TxKeeps, LoadKeeps, DecodeKeeps, Has
    <3>5. CASE Counts
      <4>1. tx' = None /\ imp'.pc \notin {"swap", "decode"}
        BY <1>2, <2>1, <3>5, QuietImport
      <4> QED
        BY <1>1, <1>2, <2>1, <3>3, <4>1 DEF Kept, TxKeeps, LoadKeeps, DecodeKeeps
    <3> QED BY <3>2, <3>4, <3>5
  <2>3. CASE page.base # cache
    <3>1. UNCHANGED <<cache, timer, acked>>
      BY <1>4, <2>3 DEF RunPatch
    <3> QED
      BY <1>1, <1>2, <2>1, <3>1
         DEF Kept, ServesAcked, AckedIsKept, MemoryOrDisk, TxKeeps, LoadKeeps,
             DecodeKeeps, Has
  <2> QED BY <2>2, <2>3
<1>5. CASE RunPost
  <2> DEFINE post == [gen |-> page.base.gen, chat |-> queued.what]
  <2>1. /\ UNCHANGED <<disk, tx, cache>> /\ store # None
        /\ timer' /\ queued # None /\ queued.kind # "read"
    BY <1>5 DEF RunPost, Wanting
  <2>2. post \in Posts
    BY <1>1, <1>5 DEF RunPost, Wanting, ImportTypeOK, Requests, Posts, Pages, Views
  <2>3. /\ store' = store \cup {post}
        /\ acked'.refs = acked.refs /\ acked'.assets = acked.assets
        /\ acked'.chats \subseteq acked.chats \cup {post}
        /\ ~Counts => acked' = acked
    BY <1>1, <1>5 DEF RunPost, ImportTypeOK
  <2> HIDE DEF post
  <2>4. store' # None
    BY <1>1, <2>1, <2>2, <2>3, NoneAssumption DEF ImportTypeOK
  <2>5. ServesAcked' /\ AckedIsKept' /\ MemoryOrDisk'
    BY <1>1, <2>1, <2>3, <2>4 DEF ServesAcked, AckedIsKept, MemoryOrDisk
  <2>6. CASE acked' = acked
    BY <1>1, <1>2, <2>1, <2>5, <2>6 DEF Kept, TxKeeps, LoadKeeps, DecodeKeeps, Has
  <2>7. CASE Counts
    <3>1. tx' = None /\ imp'.pc \notin {"swap", "decode"}
      BY <1>2, <2>1, <2>7, QuietImport
    <3> QED
      BY <1>1, <1>2, <2>1, <2>5, <3>1 DEF Kept, TxKeeps, LoadKeeps, DecodeKeeps
  <2> QED BY <2>3, <2>6, <2>7
<1>6. CASE RunRead
  BY <1>1, <1>2, <1>6
     DEF RunRead, Kept, ServesAcked, AckedIsKept, MemoryOrDisk, TxKeeps,
         LoadKeeps, DecodeKeeps, Has
<1>7. CASE TimerFires
  <2>1. /\ Put(Persisted(Conn)) /\ UNCHANGED <<cache, store, acked>>
        /\ ~timer'
    BY <1>7 DEF TimerFires
  <2>2. RowsHave'
    BY <1>1, <1>2, <2>1, ConnIsRows, PersistedIsRows, PersistedHas, PutHas
  <2>3. ServesAcked' /\ (store = None => cache = None)'
    BY <1>1, <2>1 DEF ServesAcked, MemoryOrDisk
  <2>4. /\ (imp.pc \in {"drain", "begin"} => imp.created = {})'
        /\ (imp.pc \in {"swap", "decode"} =>
              acked.refs \subseteq NewAssets /\ acked.chats = {})'
        /\ (imp.pc = "decode" =>
              imp.raw # None /\ (imp.raw.raw => NewAssets \subseteq imp.raw.refs))'
    BY <1>1, <1>2, <2>1 DEF TxKeeps, DecodeKeeps
  <2> QED BY <1>1, <1>2, <2>1, <2>2, <2>3, <2>4, KeptByRows
<1> QED BY <1>3, <1>4, <1>5, <1>6, <1>7

LEMMA KeptByImport ==
  ASSUME KeepsInv, ImportSteps \/ UploadStarts \/ NoRoom \/ Fails \/ SwapFails
  PROVE  Kept'
<1> USE DEF rows, memory, ghosts
<1>1. /\ ImportTypeOK /\ TxIsOpen /\ ServesAcked /\ AckedIsKept
      /\ MemoryOrDisk /\ TxKeeps /\ LoadKeeps /\ DecodeKeeps
  BY DEF KeepsInv
<1>2. disk \in Rows /\ disk.db \in Databases /\ imp \in Imports
  BY <1>1 DEF ImportTypeOK, Rows
<1>3. ASSUME disk' = disk, tx' = tx, cache' = cache, store' = store,
             timer' = timer, queued' = queued, load' = load, acked' = acked,
             imp'.created = imp.created \/ (tx = None /\ imp'.created = {}),
             imp'.pc \in {"drain", "begin"} => imp'.created = {},
             imp'.pc \notin {"swap", "decode"}
      PROVE  Kept'
  BY <1>1, <1>3
     DEF Kept, ServesAcked, AckedIsKept, MemoryOrDisk, TxKeeps, LoadKeeps,
         DecodeKeeps, Has
<1>4. CASE Drained \/ NoRoom \/ StreamEnds \/ SwapFails
  <2>1. /\ UNCHANGED <<disk, tx, cache, store, timer, queued, load, acked>>
        /\ imp.pc \in {"drain", "stream", "swap", "decode"}
        /\ imp'.created = imp.created
        /\ imp.pc # "drain" => imp'.pc \in {"check", "failed"}
        /\ imp'.pc \in {"begin", "full", "check", "failed"}
    BY <1>2, <1>4 DEF Drained, NoRoom, StreamEnds, SwapFails, Imports
  <2>2. imp'.pc \in {"drain", "begin"} => imp'.created = {}
    BY <1>1, <2>1 DEF TxKeeps
  <2>3. imp'.pc \notin {"swap", "decode"}
    BY <2>1
  <2> QED BY <1>3, <2>1, <2>2, <2>3
<1>5. CASE UploadStarts \/ UploadEnds
  <2>1. /\ NoImport.pc = "idle" /\ NoImport.created = {}
        /\ [NoImport EXCEPT !.pc = "begin", !.src = "upload",
                            !.plan = NewAssets].pc = "begin"
        /\ [NoImport EXCEPT !.pc = "begin", !.src = "upload",
                            !.plan = NewAssets].created = {}
    BY DEF NoImport
  <2>2. UNCHANGED <<disk, tx, cache, store, timer, queued, load, acked>>
    BY <1>5 DEF UploadStarts, UploadEnds
  <2>3. CASE UploadStarts
    BY <1>1, <1>3, <2>1, <2>2, <2>3 DEF UploadStarts, TxIsOpen
  <2>4. CASE UploadEnds
    BY <1>1, <1>3, <2>1, <2>2, <2>4 DEF UploadEnds, TxIsOpen
  <2> QED BY <1>5, <2>3, <2>4
<1>6. CASE Begins
  <2>1. /\ disk' = Flushed /\ tx' = Flushed /\ timer' = FALSE
        /\ imp.pc = "begin" /\ imp'.pc = "stream" /\ imp'.created = imp.created
        /\ UNCHANGED <<cache, store, queued, load, acked>>
    BY <1>2, <1>6 DEF Begins, Imports
  <2>2. imp.created = {} /\ Conn = disk
    BY <1>1, <2>1 DEF TxKeeps, TxIsOpen, Conn
  <2>3. /\ Has(Flushed.db) /\ acked.assets \subseteq Flushed.assets
        /\ Flushed.db.raw => NewAssets \subseteq Flushed.db.refs
    BY <1>1, <2>2, FlushedHas DEF AckedIsKept
  <2>4. RowsHave'
    BY <2>1, <2>2, <2>3 DEF RowsHave, Has
  <2>5. /\ ServesAcked' /\ (store = None => cache = None)'
        /\ (load # None => /\ queued # None /\ ~timer /\ load.db.raw
                           /\ Has(load.db) /\ NewAssets \subseteq load.db.refs)'
    BY <1>1, <2>1 DEF ServesAcked, MemoryOrDisk, LoadKeeps, Has
  <2> QED BY <1>1, <2>1, <2>4, <2>5, KeptByRows
<1>7. ASSUME NEW a \in Assets, Streams(a) PROVE Kept'
  <2>1. /\ imp.pc = "stream" /\ imp'.pc = "stream"
        /\ imp'.created = imp.created \cup ({a} \ tx.assets)
        /\ UNCHANGED <<cache, store, timer, queued, load, acked>>
        /\ tx # None /\ tx \in Rows
    BY <1>1, <1>2, <1>7 DEF Streams, Imports, TxIsOpen, ImportTypeOK
  <2>2. /\ tx'.db = tx.db /\ tx'.assets = tx.assets \cup {a}
        /\ disk' \in {disk, tx'}
    BY <1>7, <2>1 DEF Streams, Rows
  <2>3. /\ Has(disk'.db) /\ Has(tx'.db) /\ acked.assets \subseteq disk'.assets
        /\ acked.assets \subseteq tx'.assets \ imp'.created
        /\ disk'.db.raw => NewAssets \subseteq disk'.db.refs
        /\ tx'.db.raw => NewAssets \subseteq tx'.db.refs
    BY <1>1, <2>1, <2>2 DEF AckedIsKept, TxKeeps, LoadKeeps
  <2>4. RowsHave'
    BY <2>1, <2>3 DEF RowsHave, Has
  <2>5. /\ ServesAcked' /\ (store = None => cache = None)'
        /\ (timer => store # None)'
        /\ (load # None => /\ queued # None /\ ~timer /\ load.db.raw
                           /\ Has(load.db) /\ NewAssets \subseteq load.db.refs)'
    BY <1>1, <2>1 DEF ServesAcked, MemoryOrDisk, LoadKeeps, Has
  <2> QED BY <1>1, <2>1, <2>4, <2>5, KeptByRows
<1>8. CASE Commits
  <2>1. /\ disk'.db.refs = NewAssets /\ disk'.assets = imp.brought
        /\ tx' = None /\ cache' = None /\ store' = None /\ timer' = FALSE
        /\ acked'.refs = NewAssets /\ acked'.chats = {}
        /\ acked'.assets = imp.brought
        /\ imp'.pc = "swap" /\ load' = load /\ queued' = queued
    BY <1>2, <1>8 DEF Commits, Imported, Imports
  <2>2. RowsHave' /\ ServesAcked'
    BY <2>1 DEF RowsHave, ServesAcked, Has
  <2>3. (load # None => /\ queued # None /\ ~timer /\ load.db.raw
                        /\ Has(load.db) /\ NewAssets \subseteq load.db.refs)'
    BY <1>1, <2>1 DEF LoadKeeps, Has
  <2> QED BY <1>1, <2>1, <2>2, <2>3, KeptByRows
<1>9. CASE Swaps
  <2>1. /\ imp.pc = "swap" /\ imp'.pc = "decode" /\ imp'.raw = Conn.db
        /\ imp'.created = imp.created
        /\ UNCHANGED <<disk, tx, cache, store, timer, queued, load, acked>>
    BY <1>2, <1>9 DEF Swaps, Imports
  <2>2. Conn = disk
    BY <1>1, <2>1 DEF TxIsOpen, Conn
  <2>3. DecodeKeeps'
    BY <1>1, <1>2, <2>1, <2>2, NoneAssumption DEF DecodeKeeps, LoadKeeps, Has
  <2> QED
    BY <1>1, <2>1, <2>3
       DEF Kept, ServesAcked, AckedIsKept, MemoryOrDisk, TxKeeps, LoadKeeps, Has
<1>10. CASE DecodeEnds
  <2>1. /\ imp.pc = "decode" /\ imp'.pc = "done" /\ imp'.created = imp.created
        /\ UNCHANGED <<timer, queued, load, acked>>
        /\ Decoded(Conn, imp.raw, FALSE)
    BY <1>2, <1>10 DEF DecodeEnds, Imports
  <2>2. /\ Conn = disk /\ imp.raw \in Databases /\ acked.chats = {}
        /\ imp.raw.raw => acked.refs \subseteq imp.raw.refs
        /\ Has(disk.db)
    BY <1>1, <1>2, <2>1 DEF TxIsOpen, Conn, DecodeKeeps, Imports
  <2>3. disk.db.raw => NewAssets \subseteq disk.db.refs
    BY <1>1 DEF LoadKeeps
  <2>4. RowsHave' /\ ServesAcked' /\ store' # None
    BY <1>2, <2>1, <2>2, <2>3, DecodedHas
  <2>5. (load # None => /\ queued # None /\ ~timer /\ load.db.raw
                        /\ Has(load.db) /\ NewAssets \subseteq load.db.refs)'
    BY <1>1, <2>1 DEF LoadKeeps, Has
  <2> QED BY <1>1, <2>1, <2>4, <2>5, KeptByRows
<1>11. CASE Fails
  <2>1. /\ imp.pc \in {"begin", "stream", "check"} /\ imp'.pc = "failed"
        /\ disk'.db = disk.db /\ disk'.assets = disk.assets \ imp.created
        /\ tx' = None
        /\ UNCHANGED <<cache, store, timer, queued, load, acked>>
    BY <1>2, <1>11 DEF Fails, Imports, Rows
  <2>2. acked.assets \cap imp.created = {}
    BY <1>1, <2>1 DEF TxKeeps, TxIsOpen
  <2> QED
    BY <1>1, <2>1, <2>2
       DEF Kept, ServesAcked, AckedIsKept, MemoryOrDisk, TxKeeps, LoadKeeps,
           DecodeKeeps, Has
<1> QED BY <1>4, <1>5, <1>6, <1>7, <1>8, <1>9, <1>10, <1>11 DEF ImportSteps

LEMMA KeptByOthers ==
  ASSUME KeepsInv,
         \/ \E r \in Requests : Arrives(r)
         \/ AccountSteps
         \/ Restarts
         \/ UNCHANGED importVars
  PROVE  Kept'
<1> USE DEF rows, memory, ghosts
<1>1. /\ ImportTypeOK /\ TxIsOpen /\ ServesAcked /\ AckedIsKept
      /\ MemoryOrDisk /\ TxKeeps /\ LoadKeeps /\ DecodeKeeps
  BY DEF KeepsInv
<1>2. ASSUME disk' = disk, tx' = tx, cache' = cache, store' = store,
             timer' = timer, load' = load, acked' = acked,
             queued' = queued \/ queued = None,
             imp' = imp \/ (tx = None /\ imp'.created = {}
                            /\ imp'.pc \notin {"swap", "decode"})
      PROVE  Kept'
  <2>1. LoadKeeps'
    BY <1>1, <1>2 DEF LoadKeeps, Has
  <2> QED
    BY <1>1, <1>2, <2>1
       DEF Kept, ServesAcked, AckedIsKept, MemoryOrDisk, TxKeeps, DecodeKeeps, Has
<1>3. ASSUME NEW r \in Requests, Arrives(r) PROVE Kept'
  <2>1. /\ UNCHANGED <<disk, tx, cache, store, timer, load, acked>>
        /\ imp' = imp /\ queued = None
    BY <1>3 DEF Arrives
  <2> QED BY <1>2, <2>1
<1>4. CASE AccountBlocks \/ AccountUnblocks \/ UNCHANGED importVars
  <2>1. /\ UNCHANGED <<disk, tx, cache, store, timer, load, acked>>
        /\ imp' = imp /\ queued' = queued
    BY <1>4 DEF AccountBlocks, AccountUnblocks, importVars
  <2> QED BY <1>2, <2>1
<1>5. NoImport.pc = "idle" /\ NoImport.created = {}
  BY DEF NoImport
<1>6. CASE AccountReturns
  BY <1>1, <1>2, <1>5, <1>6 DEF AccountReturns, TxIsOpen
<1>7. ASSUME NEW v \in Versions, NEW plan \in SUBSET NewAssets, AccountApplies(v, plan)
      PROVE  Kept'
  <2>1. imp'.created = {} /\ imp'.pc = "drain"
    BY <1>7 DEF AccountApplies, NoImport
  <2>2. UNCHANGED <<disk, tx, cache, store, timer, load, queued, acked>>
        /\ imp.pc = "idle"
    BY <1>5, <1>7 DEF AccountApplies
  <2> QED BY <1>1, <1>2, <2>1, <2>2 DEF TxIsOpen
<1>8. CASE Restarts
  <2>1. /\ disk' = disk /\ tx' = None /\ cache' = None /\ store' = None
        /\ timer' = FALSE /\ load' = None /\ imp'.pc = "idle"
        /\ imp'.created = {}
        /\ acked'.refs = acked.refs \cap disk.db.refs
        /\ acked'.chats = acked.chats \cap disk.db.chats
        /\ acked'.assets = acked.assets
    BY <1>5, <1>8 DEF Restarts
  <2> QED
    BY <1>1, <2>1
       DEF Kept, ServesAcked, AckedIsKept, MemoryOrDisk, TxKeeps, LoadKeeps,
           DecodeKeeps, Has
<1> QED BY <1>3, <1>4, <1>6, <1>7, <1>8 DEF AccountSteps

LEMMA KeepsStep ==
  ASSUME KeepsInv, [ImportActions]_importVars
  PROVE  KeepsInv'
<1>1. ImportTypeOK /\ TxIsOpen /\ AccountIsQuiet /\ DecodeKeeps
  BY DEF KeepsInv
<1>2. ImportTypeOK' /\ TxIsOpen' /\ AccountIsQuiet'
  BY <1>1, TypeStep, TxStep, QuietStep
<1>3. Kept'
  <2>1. CASE QueueSteps \/ TimerFires
    BY <2>1, KeptByLoads, KeptByRequests DEF QueueSteps
  <2>2. CASE ImportSteps \/ UploadStarts \/ NoRoom \/ Fails \/ SwapFails
    BY <2>2, KeptByImport
  <2>3. CASE \/ \E r \in Requests : Arrives(r)
             \/ AccountSteps
             \/ Restarts
             \/ UNCHANGED importVars
    BY <2>3, KeptByOthers
  <2> QED BY <2>1, <2>2, <2>3 DEF ImportActions, ImportNext, RestartsBlocking
<1> QED BY <1>2, <1>3 DEF KeepsInv, Kept

LEMMA KeepsInit == ImportInit => KeepsInv
<1> SUFFICES ASSUME ImportInit PROVE KeepsInv
  OBVIOUS
<1>1. ImportTypeOK
  BY InitType
<1>2. /\ disk.db = FirstDb /\ disk.assets = OldAssets /\ tx = None
      /\ cache = None /\ store = None /\ timer = FALSE /\ load = None
      /\ queued = None /\ imp.pc = "idle" /\ imp.src = "none"
      /\ acked.refs = OldAssets /\ acked.chats = {} /\ acked.assets = OldAssets
  BY DEF ImportInit, NoImport
<1>3. FirstDb.refs = OldAssets /\ FirstDb.chats = {} /\ ~FirstDb.raw
  BY DEF FirstDb
<1> QED
  BY <1>1, <1>2, <1>3
     DEF KeepsInv, TxIsOpen, AccountIsQuiet, ServesAcked, AckedIsKept,
         MemoryOrDisk, TxKeeps, LoadKeeps, DecodeKeeps, Has

---------------------------------------------------------------------------
(* No older database comes back.                                           *)

\* Rows of the database that is current.
Current(r) == r.db.gen = disk.db.gen

LEMMA PutCurrent ==
  ASSUME NEW r \in Rows, Put(r), Current(r),
         tx # None => tx.db.gen = disk.db.gen
  PROVE  /\ disk'.db.gen = disk.db.gen
         /\ tx' # None => tx'.db.gen = disk.db.gen
  BY DEF Put, Current

LEMMA DecodedCurrent ==
  ASSUME NEW r \in Rows, NEW d \in Databases, NEW cached, Decoded(r, d, cached),
         Current(r), d.gen = disk.db.gen,
         tx # None => tx.db.gen = disk.db.gen
  PROVE  /\ disk'.db.gen = disk.db.gen
         /\ tx' # None => tx'.db.gen = disk.db.gen
         /\ cache' = cache \/ cache'.gen = disk.db.gen
<1> DEFINE w == [r EXCEPT !.db = [d EXCEPT !.raw = FALSE]]
<1>1. w \in Rows /\ Current(w)
  BY DEF Rows, Databases, Current
<1>2. Put(r) \/ Put(w)
  BY DEF Decoded
<1>3. cache' = cache \/ cache'.gen = d.gen
  BY DEF Decoded, ViewOf
<1> HIDE DEF w
<1> QED BY <1>1, <1>2, <1>3, PutCurrent

LEMMA FlushedCurrent ==
  ASSUME ImportTypeOK, OneGeneration, ~late
  PROVE  Current(Conn) /\ Current(Persisted(Conn)) /\ Current(Flushed)
<1>1. Current(Conn)
  BY DEF OneGeneration, Conn, Current
<1>2. cache # None => cache.gen = disk.db.gen
  BY DEF OneGeneration
<1> DEFINE r == Conn
<1>3. r \in Rows /\ r.db \in Databases
  BY ConnIsRows DEF Rows
<1> HIDE DEF r
<1>4. CASE cache # None
  <2>1. Persisted(r).db.gen = cache.gen
    BY <1>3, <1>4 DEF Persisted, Rows
  <2> QED BY <1>1, <1>2, <1>4, <2>1 DEF Current, Flushed, r
<1>5. CASE cache = None
  <2>1. Persisted(r).db = IF store # None
                          THEN [r.db EXCEPT !.raw = FALSE, !.chats = @ \cup store]
                          ELSE r.db
    BY <1>3, <1>5 DEF Persisted, Rows
  <2>2. Persisted(r).db.gen = r.db.gen
    BY <1>3, <2>1 DEF Databases
  <2> QED BY <1>1, <2>2 DEF Current, Flushed, r
<1> QED BY <1>4, <1>5

LEMMA GenStep ==
  ASSUME KeepsInv, OneGeneration, [ImportActions]_importVars
  PROVE  OneGeneration' /\ (late' \/ disk'.db.gen >= disk.db.gen)
<1> USE DEF rows, memory, ghosts
<1>1. /\ ImportTypeOK /\ TxIsOpen /\ LoadKeeps /\ DecodeKeeps
      /\ imp \in Imports
  BY DEF KeepsInv, ImportTypeOK
<1>2. disk.db.gen \in Nat /\ disk.db.gen >= disk.db.gen
  BY <1>1, GenType
<1>4. CASE late'
  BY <1>4 DEF OneGeneration
<1>5. CASE ~late' /\ late
  <2>1. late' = late \/ LoadEnds
    BY DEF ImportActions, ImportNext, QueueSteps, ImportSteps, AccountSteps,
           RestartsBlocking, Arrives, ColdLoad, RunAsset, RunPatch, RunPost,
           RunRead, TimerFires, UploadStarts, Drained, Begins, Streams,
           StreamEnds, Commits, Swaps, DecodeEnds, UploadEnds, Fails, SwapFails,
           NoRoom, AccountBlocks, AccountUnblocks, AccountReturns,
           AccountApplies, Restarts, importVars
  <2> QED BY <1>5, <2>1 DEF LoadEnds
<1>6. CASE ~late' /\ ~late
  <2>1. /\ cache # None => cache.gen = disk.db.gen
        /\ tx # None => tx.db.gen = disk.db.gen
        /\ load # None => load.db.gen <= disk.db.gen
        /\ imp.pc = "decode" => imp.raw.gen = disk.db.gen
    BY <1>6 DEF OneGeneration
  <2>2. ASSUME disk'.db.gen = disk.db.gen,
               cache' = cache \/ cache' = None \/ cache'.gen = disk.db.gen,
               tx' = None \/ tx'.db.gen = disk.db.gen,
               load' \in {load, None} \/ load'.db.gen = disk.db.gen,
               imp' = imp \/ imp'.pc # "decode"
        PROVE  OneGeneration' /\ (late' \/ disk'.db.gen >= disk.db.gen)
    BY <1>2, <2>1, <2>2 DEF OneGeneration
  <2>3. CASE ColdLoad
    <3> DEFINE r == IF NeedsCache THEN Flushed ELSE Conn
    <3>1. /\ r \in Rows /\ r.db \in Databases
          /\ Current(r) /\ r.db.gen = disk.db.gen
      BY <1>1, <1>6, ConnIsRows, FlushedIsRows, FlushedCurrent DEF Rows, Current
    <3>2. imp' = imp
      BY <2>3 DEF ColdLoad
    <3>3. CASE r.db.raw
      <4>1. /\ Put(r) /\ load' = [cached |-> NeedsCache, db |-> r.db]
            /\ cache' = cache
        BY <2>3, <3>3 DEF ColdLoad, LoadsFor
      <4>2. load'.db.gen = disk.db.gen
        BY <3>1, <4>1
      <4> HIDE DEF r
      <4>3. /\ disk'.db.gen = disk.db.gen
            /\ tx' = None \/ tx'.db.gen = disk.db.gen
        BY <2>1, <3>1, <4>1, PutCurrent
      <4> QED BY <2>2, <3>2, <4>1, <4>2, <4>3
    <3>4. CASE ~r.db.raw
      <4>1. Decoded(r, r.db, NeedsCache) /\ load' = load
        BY <2>3, <3>4 DEF ColdLoad, LoadsFor
      <4> HIDE DEF r
      <4> QED BY <2>1, <2>2, <3>1, <3>2, <4>1, DecodedCurrent
    <3> QED BY <3>3, <3>4
  <2>4. CASE LoadEnds
    <3>1. /\ load # None /\ load.db \in Databases
          /\ Decoded(Conn, load.db, load.cached) /\ load' = None /\ imp' = imp
      BY <1>1, <2>4 DEF LoadEnds, ImportTypeOK, Loads
    <3>2. load.db.gen \in Nat
      BY <3>1, GenType, <1>1 DEF Databases
    <3>3. load.db.gen = disk.db.gen
      <4>1. late' = (late \/ load.db.gen < disk.db.gen)
        BY <2>4 DEF LoadEnds
      <4>2. ~(load.db.gen < disk.db.gen)
        BY <1>6, <4>1, Zenon
      <4> QED BY <1>2, <2>1, <3>1, <3>2, <4>2
    <3> QED
      BY <1>1, <1>6, <2>1, <2>2, <3>1, <3>3, ConnIsRows, FlushedCurrent,
         DecodedCurrent
  <2>5. CASE RunAsset
    <3> DEFINE r == [Conn EXCEPT !.assets = @ \cup {queued.what}]
    <3>1. r \in Rows /\ r.db = Conn.db
      BY <1>1, <2>5, ConnIsRows DEF Rows, RunAsset, Wanting, ImportTypeOK, Requests
    <3>2. Current(r)
      BY <1>1, <1>6, <3>1, FlushedCurrent DEF Current
    <3>3. Put(r) /\ cache' = cache /\ load' = load /\ imp' = imp
      BY <2>5 DEF RunAsset
    <3> HIDE DEF r
    <3> QED BY <2>1, <2>2, <3>1, <3>2, <3>3, PutCurrent
  <2>6. CASE RunPatch
    <3>1. /\ disk' = disk /\ tx' = tx /\ load' = load /\ imp' = imp
          /\ cache' = cache \/ cache' = [cache EXCEPT !.refs = @ \cup {queued.what}]
          /\ cache # None /\ cache \in Views
      BY <1>1, <2>6 DEF RunPatch, ImportTypeOK
    <3>2. cache'.gen = disk.db.gen
      BY <2>1, <3>1 DEF Views
    <3> QED BY <2>1, <2>2, <3>1, <3>2
  <2>7. CASE TimerFires
    <3>1. Put(Persisted(Conn)) /\ UNCHANGED <<cache, load, imp>>
      BY <2>7 DEF TimerFires
    <3>2. Persisted(Conn) \in Rows /\ Current(Persisted(Conn))
      BY <1>1, <1>6, ConnIsRows, PersistedIsRows, FlushedCurrent
    <3> QED BY <2>1, <2>2, <3>1, <3>2, PutCurrent
  <2>8. CASE Begins
    <3>1. disk' = Flushed /\ tx' = Flushed /\ UNCHANGED <<cache, load>>
      BY <2>8 DEF Begins
    <3>2. imp'.pc = "stream"
      BY <1>1, <2>8 DEF Begins, Imports
    <3>3. Flushed.db.gen = disk.db.gen
      BY <1>1, <1>6, FlushedCurrent DEF Current
    <3> QED BY <2>2, <3>1, <3>2, <3>3
  <2>9. ASSUME NEW a \in Assets, Streams(a)
        PROVE  OneGeneration' /\ (late' \/ disk'.db.gen >= disk.db.gen)
    <3>1. tx # None /\ tx \in Rows /\ imp.pc = "stream"
      BY <1>1, <2>9 DEF Streams, TxIsOpen, ImportTypeOK
    <3>2. /\ tx'.db = tx.db /\ disk' \in {disk, tx'} /\ imp'.pc = "stream"
          /\ UNCHANGED <<cache, load>>
      BY <1>1, <2>9, <3>1 DEF Streams, Rows, Imports
    <3> QED BY <2>1, <2>2, <3>1, <3>2
  <2>10. CASE Commits
    <3>1. /\ disk'.db.gen = disk.db.gen + 1 /\ tx' = None /\ cache' = None
          /\ load' = load /\ imp'.pc = "swap"
      BY <1>1, <2>10 DEF Commits, Imported, Imports
    <3>2. load # None => load.db.gen \in Nat
      BY <1>1, GenType DEF ImportTypeOK, Loads, Databases
    <3> QED BY <1>2, <2>1, <3>1, <3>2 DEF OneGeneration
  <2>11. CASE Swaps
    <3>1. /\ UNCHANGED <<disk, tx, cache, load>> /\ imp'.raw = Conn.db
      BY <1>1, <2>11 DEF Swaps, Imports
    <3>2. Conn.db.gen = disk.db.gen
      BY <1>1, <1>6, FlushedCurrent DEF Current
    <3> QED BY <1>2, <2>1, <3>1, <3>2 DEF OneGeneration
  <2>12. CASE DecodeEnds
    <3>1. /\ imp.pc = "decode" /\ imp'.pc = "done" /\ load' = load
          /\ Decoded(Conn, imp.raw, FALSE)
      BY <1>1, <2>12 DEF DecodeEnds, Imports
    <3>2. imp.raw \in Databases /\ imp.raw.gen = disk.db.gen
      BY <1>1, <2>1, <3>1 DEF DecodeKeeps, Imports
    <3> QED
      BY <1>1, <1>6, <2>1, <2>2, <3>1, <3>2, ConnIsRows, FlushedCurrent,
         DecodedCurrent
  <2>13. CASE Fails
    <3>1. /\ disk'.db = disk.db /\ tx' = None /\ UNCHANGED <<cache, load>>
          /\ imp'.pc = "failed"
      BY <1>1, <2>13 DEF Fails, ImportTypeOK, Rows, Imports
    <3> QED BY <2>2, <3>1
  <2>14. CASE Restarts
    <3>1. /\ disk' = disk /\ tx' = None /\ cache' = None /\ load' = None
          /\ imp'.pc = "idle"
      BY <2>14 DEF Restarts, NoImport
    <3> QED BY <2>2, <3>1
  <2>15. CASE Drained \/ NoRoom \/ StreamEnds \/ SwapFails
    <3>1. UNCHANGED <<disk, tx, cache, load>>
      BY <2>15 DEF Drained, NoRoom, StreamEnds, SwapFails
    <3>2. imp'.pc # "decode"
      BY <1>1, <2>15 DEF Drained, NoRoom, StreamEnds, SwapFails, Imports
    <3> QED BY <2>1, <2>2, <3>1, <3>2
  <2>16. CASE UploadStarts \/ UploadEnds \/ AccountReturns
              \/ \E v \in Versions, plan \in SUBSET NewAssets : AccountApplies(v, plan)
    <3>1. UNCHANGED <<disk, tx, cache, load>>
      BY <2>16 DEF UploadStarts, UploadEnds, AccountReturns, AccountApplies
    <3>2. NoImport.pc = "idle"
      BY DEF NoImport
    <3>3. CASE UploadEnds \/ AccountReturns
      BY <2>1, <2>2, <3>1, <3>2, <3>3 DEF UploadEnds, AccountReturns
    <3>4. CASE UploadStarts
      <4>1. imp'.pc = "begin"
        BY <3>4 DEF UploadStarts, NoImport
      <4> QED BY <2>1, <2>2, <3>1, <4>1
    <3>5. ASSUME NEW v \in Versions, NEW plan \in SUBSET NewAssets,
                 AccountApplies(v, plan)
          PROVE  OneGeneration' /\ (late' \/ disk'.db.gen >= disk.db.gen)
      <4>1. imp'.pc = "drain"
        BY <3>5 DEF AccountApplies, NoImport
      <4> QED BY <2>1, <2>2, <3>1, <4>1
    <3> QED BY <2>16, <3>3, <3>4, <3>5
  <2>17. ASSUME UNCHANGED <<disk, tx, cache, load, imp>>
         PROVE  OneGeneration' /\ (late' \/ disk'.db.gen >= disk.db.gen)
    BY <2>1, <2>2, <2>17
  <2>18. CASE RunPost \/ RunRead \/ AccountBlocks \/ AccountUnblocks
              \/ UNCHANGED importVars \/ \E r \in Requests : Arrives(r)
    <3>1. UNCHANGED <<disk, tx, cache, load, imp>>
      BY <2>18
         DEF RunPost, RunRead, AccountBlocks, AccountUnblocks, importVars, Arrives
    <3> QED BY <2>17, <3>1
  <2> QED
    BY <2>3, <2>4, <2>5, <2>6, <2>7, <2>8, <2>9, <2>10, <2>11, <2>12, <2>13,
       <2>14, <2>15, <2>16, <2>18
       DEF ImportActions, ImportNext, QueueSteps, ImportSteps, AccountSteps,
           RestartsBlocking
<1> QED BY <1>4, <1>5, <1>6

LEMMA GenInit == ImportInit => OneGeneration
<1> SUFFICES ASSUME ImportInit PROVE OneGeneration
  OBVIOUS
<1>1. cache = None /\ tx = None /\ load = None /\ imp.pc = "idle"
  BY DEF ImportInit, NoImport
<1> QED BY <1>1 DEF OneGeneration

---------------------------------------------------------------------------
(* No page of an older database writes into an account's.                  *)

LEMMA PutFits ==
  ASSUME NEW r \in Rows, Put(r), Fits(r.db), OnlyNew
  PROVE  Fits(disk'.db) /\ (tx' = None \/ Fits(tx'.db))
  BY DEF Put, OnlyNew

LEMMA DecodedFits ==
  ASSUME NEW r \in Rows, NEW d \in Databases, NEW cached, Decoded(r, d, cached),
         Fits(r.db), Fits(d), OnlyNew
  PROVE  /\ Fits(disk'.db) /\ (tx' = None \/ Fits(tx'.db))
         /\ cache' = cache \/ (cache'.gen = disk.db.gen /\ cache'.by = disk.db.by)
         /\ Own(store')
<1> DEFINE w == [r EXCEPT !.db = [d EXCEPT !.raw = FALSE]]
<1>1. w \in Rows /\ Fits(w.db)
  BY DEF Rows, Databases, Fits
<1>2. Put(r) \/ Put(w)
  BY DEF Decoded
<1>3. /\ cache' = cache \/ (cache'.gen = d.gen /\ cache'.by = d.by)
      /\ store' = d.chats
  BY DEF Decoded, ViewOf
<1> HIDE DEF w
<1>4. Fits(disk'.db) /\ (tx' = None \/ Fits(tx'.db))
  BY <1>1, <1>2, PutFits
<1> QED BY <1>3, <1>4 DEF Fits

LEMMA FlushedFits ==
  ASSUME ImportTypeOK, OnlyNew
  PROVE  Fits(Conn.db) /\ Fits(Persisted(Conn).db) /\ Fits(Flushed.db)
<1> DEFINE r == Conn
<1>1. Fits(r.db)
  BY DEF OnlyNew, Conn
<1>2. r \in Rows /\ r.db \in Databases
  BY ConnIsRows DEF Rows
<1> HIDE DEF r
<1>3. Fits(Persisted(r).db)
  <2>1. CASE cache # None
    <3>1. /\ Persisted(r).db.gen = cache.gen /\ Persisted(r).db.by = cache.by
          /\ Persisted(r).db.chats = IF store = None THEN r.db.chats ELSE store
      BY <1>2, <2>1 DEF Persisted, Rows
    <3> QED BY <1>1, <2>1, <3>1 DEF OnlyNew, Fits
  <2>2. CASE cache = None /\ store # None
    <3>1. Persisted(r).db = [r.db EXCEPT !.raw = FALSE, !.chats = @ \cup store]
      BY <1>2, <2>2 DEF Persisted, Rows
    <3>2. /\ Persisted(r).db.gen = r.db.gen /\ Persisted(r).db.by = r.db.by
          /\ Persisted(r).db.chats = r.db.chats \cup store
      BY <1>2, <3>1 DEF Databases
    <3> QED BY <1>1, <2>2, <3>2 DEF OnlyNew, Fits, Own
  <2>3. CASE cache = None /\ store = None
    <3>1. Persisted(r).db = r.db
      BY <1>2, <2>3 DEF Persisted, Rows
    <3> QED BY <1>1, <3>1
  <2> QED BY <2>1, <2>2, <2>3
<1> QED BY <1>1, <1>3 DEF Flushed, r

\* Whatever a step puts where: the database on disk stays the one it is until a
\* commit, and so do the copies.
SameDb == disk'.db.gen = disk.db.gen /\ disk'.db.by = disk.db.by
KeepsNew == OnlyNew' /\ (Commits \/ SameDb)

LEMMA OnlyNewStep ==
  ASSUME KeepsInv, OneGeneration, SealInv, [ImportActions]_importVars, ~late, ~late'
  PROVE  KeepsNew
<1> USE DEF rows, memory, ghosts
<1>1. /\ ImportTypeOK /\ TxIsOpen /\ DecodeKeeps /\ OnlyNew /\ OldPages /\ OneGeneration
      /\ imp \in Imports /\ disk.db.gen \in Nat
  BY GenType DEF KeepsInv, SealInv, ImportTypeOK
<1>2. ASSUME forgot' = forgot,
             Fits(disk'.db), tx' = None \/ Fits(tx'.db),
             \/ cache' \in {cache, None}
             \/ cache'.gen = disk.db.gen /\ cache'.by = disk.db.by,
             store' \in {store, None} \/ Own(store'),
             load' \in {load, None} \/ Fits(load'.db),
             imp' = imp \/ imp'.pc # "decode" \/ Fits(imp'.raw)
      PROVE  KeepsNew
  <2>1. SameDb
    BY <1>2 DEF Fits, SameDb
  <2>2. Sealed' <=> Sealed
    BY <1>2, <2>1 DEF Sealed, SameDb
  <2>3. OnlyNew'
    BY <1>1, <1>2, <2>1, <2>2 DEF OnlyNew, Fits, Own, SameDb
  <2> QED BY <2>1, <2>3 DEF KeepsNew
<1>3. Fits(disk.db) /\ (tx = None \/ Fits(tx.db))
  BY <1>1 DEF OnlyNew
<1>4. CASE ColdLoad
  <2> DEFINE r == IF NeedsCache THEN Flushed ELSE Conn
  <2>1. r \in Rows /\ r.db \in Databases /\ Fits(r.db)
    BY <1>1, ConnIsRows, FlushedIsRows, FlushedFits DEF Rows
  <2>2. imp' = imp /\ forgot' = forgot
    BY <1>4 DEF ColdLoad
  <2>3. CASE r.db.raw
    <3>1. /\ Put(r) /\ load' = [cached |-> NeedsCache, db |-> r.db]
          /\ cache' = cache /\ store' = store
      BY <1>4, <2>3 DEF ColdLoad, LoadsFor
    <3>2. Fits(load'.db)
      BY <2>1, <3>1
    <3> HIDE DEF r
    <3> QED BY <1>1, <1>2, <2>1, <2>2, <3>1, <3>2, PutFits
  <2>4. CASE ~r.db.raw
    <3>1. Decoded(r, r.db, NeedsCache) /\ load' = load
      BY <1>4, <2>4 DEF ColdLoad, LoadsFor
    <3> HIDE DEF r
    <3> QED BY <1>1, <1>2, <2>1, <2>2, <3>1, DecodedFits
  <2> QED BY <2>3, <2>4
<1>5. CASE LoadEnds
  <2>1. /\ load # None /\ load.db \in Databases
        /\ Decoded(Conn, load.db, load.cached) /\ load' = None /\ imp' = imp
        /\ forgot' = forgot /\ late' = (late \/ load.db.gen < disk.db.gen)
    BY <1>1, <1>5 DEF LoadEnds, ImportTypeOK, Loads
  <2>2. load.db.gen \in Nat /\ load.db.gen <= disk.db.gen
    BY <1>1, <2>1, GenType DEF Databases, OneGeneration
  <2>3. load.db.gen = disk.db.gen
    <3>1. ~(load.db.gen < disk.db.gen)
      BY <2>1, Zenon
    <3> QED BY <1>1, <2>2, <3>1
  <2>4. Fits(load.db)
    BY <1>1, <2>1, <2>3 DEF OnlyNew
  <2> QED BY <1>1, <1>2, <2>1, <2>4, ConnIsRows, FlushedFits, DecodedFits
<1>6. CASE RunAsset
  <2> DEFINE r == [Conn EXCEPT !.assets = @ \cup {queued.what}]
  <2>1. r \in Rows /\ r.db = Conn.db
    BY <1>1, <1>6, ConnIsRows DEF Rows, RunAsset, Wanting, ImportTypeOK, Requests
  <2>2. Put(r) /\ UNCHANGED <<cache, store, load, imp, forgot>>
    BY <1>6 DEF RunAsset
  <2> HIDE DEF r
  <2> QED BY <1>1, <1>2, <2>1, <2>2, FlushedFits, PutFits
<1>7. CASE RunPatch
  <2>1. /\ UNCHANGED <<disk, tx, store, load, imp, forgot>>
        /\ cache' = cache \/ cache' = [cache EXCEPT !.refs = @ \cup {queued.what}]
        /\ cache # None /\ cache \in Views
    BY <1>1, <1>7 DEF RunPatch, ImportTypeOK
  <2>2. cache'.gen = disk.db.gen /\ cache'.by = disk.db.by
    BY <1>1, <2>1 DEF Views, OnlyNew
  <2> QED BY <1>2, <1>3, <2>1, <2>2
\* Where a chat body is taken, the page that posts it is of this database.
<1>8. CASE RunPost
  <2>1. /\ UNCHANGED <<disk, tx, cache, load, imp, forgot>> /\ store # None
        /\ store' = store \cup {[gen |-> page.base.gen, chat |-> queued.what]}
        /\ queued # None /\ queued.kind = "post"
    BY <1>8 DEF RunPost, Wanting
  <2>2. Sealed => page.base.gen = disk.db.gen
    BY <1>1, <2>1 DEF OldPages
  <2>3. Own(store')
    BY <1>1, <2>1, <2>2 DEF OnlyNew, Own
  <2> QED BY <1>2, <1>3, <2>1, <2>3
<1>9. CASE TimerFires
  <2>1. Put(Persisted(Conn)) /\ UNCHANGED <<cache, store, load, imp, forgot>>
    BY <1>9 DEF TimerFires
  <2>2. Persisted(Conn) \in Rows /\ Fits(Persisted(Conn).db)
    BY <1>1, ConnIsRows, PersistedIsRows, FlushedFits
  <2> QED BY <1>1, <1>2, <2>1, <2>2, PutFits
<1>10. CASE Begins
  <2>1. disk' = Flushed /\ tx' = Flushed /\ UNCHANGED <<cache, store, load, forgot>>
    BY <1>10 DEF Begins
  <2>2. imp'.pc = "stream"
    BY <1>1, <1>10 DEF Begins, Imports
  <2> QED BY <1>1, <1>2, <2>1, <2>2, FlushedFits
<1>11. ASSUME NEW a \in Assets, Streams(a)
       PROVE  KeepsNew
  <2>1. tx # None /\ tx \in Rows /\ imp.pc = "stream"
    BY <1>1, <1>11 DEF Streams, TxIsOpen, ImportTypeOK
  <2>2. /\ tx'.db = tx.db /\ disk' \in {disk, tx'} /\ imp'.pc = "stream"
        /\ UNCHANGED <<cache, store, load, forgot>>
    BY <1>1, <1>11, <2>1 DEF Streams, Rows, Imports
  <2> QED BY <1>2, <1>3, <2>1, <2>2
<1>12. CASE Commits
  <2>1. /\ disk'.db.gen = disk.db.gen + 1 /\ disk'.db.chats = {}
        /\ tx' = None /\ cache' = None /\ store' = None /\ load' = load /\ imp'.pc = "swap"
    BY <1>1, <1>12 DEF Commits, Imported, Imports
  <2>2. load # None => load.db.gen \in Nat /\ load.db.gen <= disk.db.gen
    BY <1>1, GenType DEF ImportTypeOK, Loads, Databases, OneGeneration
  <2> QED BY <1>1, <1>12, <2>1, <2>2 DEF OnlyNew, Fits, Own, KeepsNew
<1>13. CASE Swaps
  <2>1. UNCHANGED <<disk, tx, cache, store, load, forgot>> /\ imp'.raw = Conn.db
    BY <1>1, <1>13 DEF Swaps, Imports
  <2> QED BY <1>1, <1>2, <1>3, <2>1, FlushedFits
<1>14. CASE DecodeEnds
  <2>1. /\ imp.pc = "decode" /\ imp'.pc = "done" /\ load' = load /\ forgot' = forgot
        /\ Decoded(Conn, imp.raw, FALSE)
    BY <1>1, <1>14 DEF DecodeEnds, Imports
  <2>2. imp.raw \in Databases /\ Fits(imp.raw)
    BY <1>1, <2>1 DEF DecodeKeeps, Imports, OnlyNew
  <2> QED BY <1>1, <1>2, <2>1, <2>2, ConnIsRows, FlushedFits, DecodedFits
<1>15. CASE Fails
  <2>1. /\ disk'.db = disk.db /\ tx' = None /\ UNCHANGED <<cache, store, load, forgot>>
        /\ imp'.pc = "failed"
    BY <1>1, <1>15 DEF Fails, ImportTypeOK, Rows, Imports
  <2> QED BY <1>2, <1>3, <2>1
<1>16. CASE Restarts
  <2>1. /\ disk' = disk /\ tx' = None /\ cache' = None /\ store' = None /\ load' = None
        /\ imp'.pc = "idle" /\ (~forgot' => ~forgot)
    BY <1>16 DEF Restarts, NoImport
  <2> QED BY <1>3, <2>1 DEF OnlyNew, Fits, Own, Sealed, KeepsNew, SameDb
<1>17. ASSUME UNCHANGED <<disk, tx, cache, store, load, forgot>>,
              imp' = imp \/ imp'.pc # "decode"
       PROVE  KeepsNew
  BY <1>2, <1>3, <1>17
<1>18. CASE Drained \/ NoRoom \/ StreamEnds \/ SwapFails
  <2>1. UNCHANGED <<disk, tx, cache, store, load, forgot>>
    BY <1>18 DEF Drained, NoRoom, StreamEnds, SwapFails
  <2>2. imp'.pc # "decode"
    BY <1>1, <1>18 DEF Drained, NoRoom, StreamEnds, SwapFails, Imports
  <2> QED BY <1>17, <2>1, <2>2
<1>19. CASE UploadStarts \/ UploadEnds \/ AccountReturns
            \/ \E v \in Versions, plan \in SUBSET NewAssets : AccountApplies(v, plan)
  <2>1. UNCHANGED <<disk, tx, cache, store, load, forgot>>
    BY <1>19 DEF UploadStarts, UploadEnds, AccountReturns, AccountApplies
  <2>2. imp'.pc \in {"idle", "begin", "drain"}
    <3>1. CASE UploadEnds \/ AccountReturns
      BY <3>1 DEF UploadEnds, AccountReturns, NoImport
    <3>2. CASE UploadStarts
      BY <3>2 DEF UploadStarts, NoImport
    <3>3. CASE \E v \in Versions, plan \in SUBSET NewAssets : AccountApplies(v, plan)
      BY <3>3 DEF AccountApplies, NoImport
    <3> QED BY <1>19, <3>1, <3>2, <3>3
  <2> QED BY <1>17, <2>1, <2>2
<1>20. CASE RunRead \/ AccountBlocks \/ AccountUnblocks
            \/ UNCHANGED importVars \/ \E r \in Requests : Arrives(r)
  <2>1. UNCHANGED <<disk, tx, cache, store, load, imp, forgot>>
    BY <1>20 DEF RunRead, AccountBlocks, AccountUnblocks, importVars, Arrives
  <2> QED BY <1>17, <2>1
<1> QED
  BY <1>4, <1>5, <1>6, <1>7, <1>8, <1>9, <1>10, <1>11, <1>12, <1>13,
     <1>14, <1>15, <1>16, <1>18, <1>19, <1>20
     DEF ImportActions, ImportNext, QueueSteps, ImportSteps, AccountSteps,
         RestartsBlocking

\* An account's database comes from an account's import.
LEMMA OriginStep ==
  ASSUME ImportTypeOK, imp.by \in Versions => imp.src = "account",
         [ImportActions]_importVars
  PROVE  imp'.by \in Versions => imp'.src = "account"
<1> USE DEF rows, memory, ghosts
<1>1. NoImport.by \notin Versions
  BY ImportAssumption DEF NoImport
<1>2. CASE UploadStarts
  BY <1>2, ImportAssumption DEF UploadStarts, NoImport
<1>3. CASE UploadEnds \/ AccountReturns \/ Restarts
  BY <1>1, <1>3 DEF UploadEnds, AccountReturns, Restarts
<1>4. ASSUME NEW v \in Versions, NEW plan \in SUBSET NewAssets, AccountApplies(v, plan)
      PROVE  imp'.src = "account"
  BY <1>4 DEF AccountApplies, NoImport
<1>5. CASE Drained \/ NoRoom \/ Begins \/ (\E a \in Assets : Streams(a)) \/ StreamEnds
            \/ Commits \/ Swaps \/ DecodeEnds \/ Fails \/ SwapFails
  <2>1. imp'.src = imp.src /\ imp'.by = imp.by
    BY <1>5 DEF Drained, NoRoom, Begins, Streams, StreamEnds, Commits, Swaps, DecodeEnds,
       Fails, SwapFails, ImportTypeOK, Imports
  <2> QED BY <2>1
<1>6. CASE imp' = imp
  BY <1>6
<1> QED
  BY <1>2, <1>3, <1>4, <1>5, <1>6
     DEF ImportActions, ImportNext, QueueSteps, ImportSteps, AccountSteps,
         RestartsBlocking, Arrives, ColdLoad, LoadEnds, RunAsset, RunPatch, RunPost,
         RunRead, TimerFires, AccountBlocks, AccountUnblocks, importVars

\* A page falls behind when an account's database is committed, and it is
\* revoked before its writes are taken again.
LEMMA OldPagesStep ==
  ASSUME KeepsInv, OneGeneration, SealInv, [ImportActions]_importVars, ~late, ~late'
  PROVE  OldPages'
<1> USE DEF rows, memory, ghosts
<1> DEFINE Behind == Sealed /\ page.base.gen # disk.db.gen
           Refused == \/ page.revoked
                      \/ /\ imp.src = "account"
                         /\ imp.pc \in {"swap", "decode", "done", "failed"}
<1>1. /\ ImportTypeOK /\ AccountIsQuiet /\ OnlyNew /\ OldPages
      /\ imp \in Imports /\ page \in Pages /\ disk.db.gen \in Nat /\ page.base.gen \in Nat
      /\ imp.by \in Versions => imp.src = "account"
  <2>1. page.base.gen \in Nat
    BY ImportAssumption DEF KeepsInv, ImportTypeOK, Pages, Views, Gens
  <2> QED BY <2>1, GenType DEF KeepsInv, SealInv, ImportTypeOK
<1>2. /\ page.base.gen <= disk.db.gen
      /\ Behind => Refused /\ (queued # None => queued.kind = "read")
  BY <1>1 DEF OldPages
\* The page stays, and what refuses its writes.
<1>3. ASSUME SameDb, forgot' = forgot, page'.base.gen = page.base.gen,
             Behind /\ queued' # None => queued'.kind = "read",
             Behind => Refused'
      PROVE  OldPages'
  <2>1. Sealed' => Sealed
    BY <1>3 DEF Sealed, SameDb
  <2> QED BY <1>2, <1>3, <2>1 DEF OldPages, SameDb
\* The page is of the database on disk.
<1>4. ASSUME SameDb, page'.base.gen = disk.db.gen
      PROVE  OldPages'
  BY <1>1, <1>4 DEF OldPages, SameDb
<1>5. Commits \/ SameDb
  BY OnlyNewStep DEF KeepsNew
<1> HIDE DEF Behind
<1>6. CASE Commits
  <2>1. /\ disk'.db.gen = disk.db.gen + 1 /\ disk'.db.by = imp.by
        /\ page' = page /\ queued' = queued /\ imp.pc = "check"
        /\ imp'.src = imp.src /\ imp'.pc = "swap"
    BY <1>1, <1>6 DEF Commits, Imported, Imports
  <2>2. Sealed' => imp.src = "account"
    BY <1>1, <2>1 DEF Sealed
  <2>3. Sealed' => (queued # None => queued.kind = "read")
    BY <1>1, <2>1, <2>2 DEF AccountIsQuiet
  <2> QED BY <1>1, <1>2, <2>1, <2>2, <2>3 DEF OldPages
<1>7. CASE SameDb
  <2>1. ASSUME NEW r \in Requests, Arrives(r) PROVE OldPages'
    <3>1. /\ UNCHANGED <<forgot, page, imp>> /\ queued' = r
          /\ r.kind # "read" => ~blocking /\ ~page.revoked
      BY <2>1 DEF Arrives, Admitted
    <3>2. Refused => blocking \/ page.revoked
      BY <1>1 DEF AccountIsQuiet
    <3> QED BY <1>2, <1>3, <1>7, <3>1, <3>2
  <2>2. CASE RunRead
    <3>1. page'.base = cache /\ cache # None
      BY <2>2 DEF RunRead
    <3> QED BY <1>1, <1>4, <1>7, <3>1 DEF OnlyNew
  <2>3. CASE RunPatch
    <3>1. CASE page.base = cache
      <4>1. cache' = [cache EXCEPT !.refs = @ \cup {queued.what}] /\ cache # None
            /\ page' = [page EXCEPT !.base = cache']
        BY <2>3, <3>1 DEF RunPatch
      <4>2. cache'.gen = disk.db.gen
        BY <1>1, <4>1 DEF ImportTypeOK, Views, OnlyNew
      <4>3. page'.base = cache'
        BY <1>1, <4>1 DEF Pages
      <4> QED BY <1>4, <1>7, <4>2, <4>3
    <3>2. CASE page.base # cache
      <4>1. UNCHANGED <<forgot, page, imp>> /\ queued' = None
        BY <2>3, <3>2 DEF RunPatch
      <4> QED BY <1>2, <1>3, <1>7, <4>1
    <3> QED BY <3>1, <3>2
  <2>4. CASE RunAsset
    <3>1. /\ UNCHANGED <<forgot, imp>> /\ queued' = None
          /\ page'.base = page.base /\ page'.revoked = page.revoked
      BY <1>1, <2>4 DEF RunAsset, Pages
    <3> QED BY <1>2, <1>3, <1>7, <3>1
  <2>5. CASE RunPost
    <3>1. UNCHANGED <<forgot, page, imp>> /\ queued' = None
      BY <2>5 DEF RunPost
    <3> QED BY <1>2, <1>3, <1>7, <3>1
  <2>6. ASSUME UNCHANGED <<forgot, page, queued>>, Behind => Refused'
        PROVE  OldPages'
    BY <1>2, <1>3, <1>7, <2>6
  <2>7. CASE ColdLoad \/ LoadEnds \/ TimerFires \/ AccountBlocks \/ AccountUnblocks
              \/ UNCHANGED importVars
    <3>1. UNCHANGED <<forgot, page, queued, imp>>
      BY <2>7 DEF ColdLoad, LoadEnds, TimerFires, AccountBlocks, AccountUnblocks, importVars
    <3> QED BY <1>2, <2>6, <3>1
  \* Until its commit an import refuses nothing by itself, and then to the end.
  <2>8. CASE UploadStarts \/ Drained \/ NoRoom \/ Begins \/ (\E a \in Assets : Streams(a))
              \/ StreamEnds \/ Fails
              \/ \E v \in Versions, plan \in SUBSET NewAssets : AccountApplies(v, plan)
    <3>1. UNCHANGED <<forgot, page, queued>>
      BY <2>8 DEF UploadStarts, Drained, NoRoom, Begins, Streams, StreamEnds, Fails,
         AccountApplies
    <3>2. imp.pc \in {"idle", "drain", "begin", "stream", "check"}
      <4>1. NoImport.pc = "idle"
        BY DEF NoImport
      <4> QED BY <2>8, <4>1 DEF UploadStarts, Drained, NoRoom, Begins, Streams, StreamEnds,
            Fails, AccountApplies
    <3>3. Behind => page.revoked
      BY <1>2, <3>2
    <3> QED BY <2>6, <3>1, <3>3
  <2>9. CASE Swaps \/ DecodeEnds \/ SwapFails
    <3>1. UNCHANGED <<forgot, page, queued>>
      BY <2>9 DEF Swaps, DecodeEnds, SwapFails
    <3>2. imp'.src = imp.src /\ imp'.pc \in {"decode", "done", "failed"}
      BY <1>1, <2>9 DEF Swaps, DecodeEnds, SwapFails, Imports
    <3> QED BY <1>2, <2>6, <3>1, <3>2
  <2>10. CASE UploadEnds
    <3>1. UNCHANGED <<forgot, page, queued>> /\ imp.src = "upload"
      BY <2>10 DEF UploadEnds
    <3>2. Behind => page.revoked
      BY <1>2, <3>1
    <3> QED BY <2>6, <3>1, <3>2
  <2>11. CASE AccountReturns
    <3>1. UNCHANGED <<forgot, queued>>
      BY <2>11 DEF AccountReturns
    <3>2. page'.base = page.base /\ (page'.revoked \/ (imp.pc = "full" /\ page' = page))
      BY <1>1, <2>11 DEF AccountReturns, Revoked, Pages
    <3>3. Behind => page'.revoked
      BY <1>2, <3>2
    <3> QED BY <1>2, <1>3, <1>7, <3>1, <3>2, <3>3
  <2>12. CASE Restarts
    <3>1. /\ page'.base = page.base /\ queued' = None
          /\ forgot' = (forgot \/ page.base.gen < disk.db.gen)
      BY <1>1, <2>12 DEF Restarts, Pages
    <3>2. ~forgot' => page.base.gen = disk.db.gen
      <4>1. ~forgot' => ~(page.base.gen < disk.db.gen)
        BY <3>1, Zenon
      <4> QED BY <1>1, <1>2, <4>1
    <3> QED BY <1>2, <1>7, <3>1, <3>2 DEF OldPages, Sealed, SameDb
  <2> QED
    BY <1>6, <2>1, <2>2, <2>3, <2>4, <2>5, <2>7, <2>8, <2>9, <2>10, <2>11, <2>12
       DEF ImportActions, ImportNext, QueueSteps, ImportSteps, AccountSteps,
           RestartsBlocking
<1> QED BY <1>5, <1>6, <1>7

LEMMA SealStep ==
  ASSUME KeepsInv, OneGeneration, SealInv, [ImportActions]_importVars
  PROVE  SealInv'
<1>1. imp'.by \in Versions => imp'.src = "account"
  BY OriginStep DEF KeepsInv, SealInv
<1>2. late => late'
  <2>1. late' = late \/ LoadEnds
    BY DEF ImportActions, ImportNext, QueueSteps, ImportSteps, AccountSteps,
           RestartsBlocking, Arrives, ColdLoad, RunAsset, RunPatch, RunPost,
           RunRead, TimerFires, UploadStarts, Drained, Begins, Streams,
           StreamEnds, Commits, Swaps, DecodeEnds, UploadEnds, Fails, SwapFails,
           NoRoom, AccountBlocks, AccountUnblocks, AccountReturns,
           AccountApplies, Restarts, importVars, ghosts
  <2> QED BY <2>1 DEF LoadEnds
<1>3. ~late' => OnlyNew' /\ OldPages'
  BY <1>2, OnlyNewStep, OldPagesStep DEF KeepsNew
<1> QED BY <1>1, <1>3 DEF SealInv

LEMMA SealInit == ImportInit => SealInv
<1> SUFFICES ASSUME ImportInit PROVE SealInv
  OBVIOUS
<1>1. /\ disk.db = FirstDb /\ tx = None /\ cache = None /\ store = None /\ load = None
      /\ imp = NoImport /\ page.base = ViewOf(FirstDb) /\ queued = None
  BY DEF ImportInit
<1>2. /\ FirstDb.gen = 0 /\ FirstDb.by \notin Versions /\ ViewOf(FirstDb).gen = 0
      /\ NoImport.by \notin Versions /\ NoImport.pc = "idle" /\ FirstDb.chats = {}
  BY ImportAssumption DEF FirstDb, ViewOf, NoImport
<1> QED BY <1>1, <1>2 DEF SealInv, OnlyNew, OldPages, Fits, Own, Sealed

LEMMA Inductive == ImportSpec => []IInv
<1>1. ImportInit => IInv
  BY KeepsInit, GenInit, SealInit DEF IInv
<1>2. IInv /\ [ImportActions]_importVars => IInv'
  BY KeepsStep, GenStep, SealStep DEF IInv
<1> QED BY <1>1, <1>2, PTL DEF ImportSpec, ImportActions

---------------------------------------------------------------------------
(* The theorems.                                                           *)

\* Every variable has its type: what importBackupFromSource and the storage
\* queue leave between two of their steps is one of the states described.
THEOREM ImportTypeCorrect == ImportSpec => []ImportTypeOK
<1>1. IInv => ImportTypeOK
  BY DEF IInv, KeepsInv
<1> QED BY <1>1, Inductive, PTL

\* A request is answered from everything the pages were told is saved, also
\* after a load that straddled an import's commit.
THEOREM AcknowledgedIsServed == ImportSpec => []ServesAcked
<1>1. IInv => ServesAcked
  BY DEF IInv, KeepsInv
<1> QED BY <1>1, Inductive, PTL

\* What pages were told is saved is committed or waits for a timer, and a
\* failed import takes no asset away that was saved before it.
THEOREM AcknowledgedIsKept == ImportSpec => []AckedIsKept
<1>1. IInv => AckedIsKept
  BY DEF IInv, KeepsInv
<1> QED BY <1>1, Inductive, PTL

\* No step brings an older database back, a load that a commit overtook
\* excepted.
THEOREM NoOlderDatabase == ImportSpec => ImportedStays
<1>1. IInv /\ [ImportActions]_importVars
        => [disk'.db.gen >= disk.db.gen \/ late']_importVars
  BY GenStep DEF IInv
<1> QED
  BY <1>1, Inductive, PTL DEF ImportSpec, ImportActions, ImportedStays

\* Once an account's database is imported, no page that was loaded before
\* puts a chat body into it.
THEOREM NoOldPageWrites == ImportSpec => []OldPagesStayOut
<1>1. IInv => OldPagesStayOut
  BY DEF IInv, SealInv, OnlyNew, Fits, Own, Sealed, OldPagesStayOut
<1> QED BY <1>1, Inductive, PTL

\* Nothing that was acknowledged is lost, in memory or on disk.
THEOREM AcknowledgedSurvives == ImportSpec => []AckedSurvives
<1>1. ServesAcked /\ AckedIsKept => AckedSurvives
  BY DEF AckedSurvives
<1> QED BY <1>1, AcknowledgedIsServed, AcknowledgedIsKept, PTL

---------------------------------------------------------------------------
(* The import of an account.                                               *)

---------------------------------------------------------------------------
(* What replaces the database is the import that runs.                     *)

\* What memory, the transaction or a load holds is never of a later database
\* than the one on disk, the database an import decodes never of an earlier.
NoneNewer ==
    /\ Conn.db.gen <= disk.db.gen
    /\ cache # None => cache.gen <= Conn.db.gen
    /\ load # None => cache = None /\ load.db.gen <= Conn.db.gen
    /\ imp.pc = "decode" => disk.db.gen <= imp.raw.gen

\* Once a late load has put an older database back, the imported one is gone.
Settled ==
    /\ load # None => load.db.gen = disk.db.gen
    /\ cache # None => cache.gen = disk.db.gen

Replaced ==
    /\ imp.pc = "swap" => disk.db.by = imp.by \/ Settled
    /\ imp.pc = "decode" =>
         imp.raw.by = imp.by \/ (Settled /\ imp.raw.gen = disk.db.gen)

\* An import commits the files it planned to bring.
Brought ==
    /\ imp.pc \in {"check", "swap", "decode"} => imp.plan \subseteq imp.brought
    /\ imp.pc \in {"swap", "decode"} => imp.brought \subseteq acked.assets

ReplaceInv == NoneNewer /\ Replaced /\ Brought

LEMMA GensAreNat ==
  ASSUME ImportTypeOK
  PROVE  /\ disk.db.gen \in Nat /\ Conn.db.gen \in Nat
         /\ cache # None => cache.gen \in Nat
         /\ load # None => load.db.gen \in Nat
         /\ imp.raw # None => imp.raw.gen \in Nat
<1>1. Gens \subseteq Nat /\ disk.db.gen \in Nat
  BY GenType
<1>2. Conn.db.gen \in Gens
  BY ConnIsRows DEF Rows, Databases
<1> QED
  BY <1>1, <1>2 DEF ImportTypeOK, Views, Loads, Databases, Imports

LEMMA PutGen ==
  ASSUME ImportTypeOK, NEW r \in Rows, Put(r),
         Conn.db.gen <= disk.db.gen, r.db.gen <= Conn.db.gen
  PROVE  /\ Conn' = r
         /\ r.db.gen <= disk'.db.gen /\ disk'.db.gen <= disk.db.gen
<1>1. r # None /\ r.db.gen \in Nat
  BY NoneAssumption, ImportAssumption DEF Rows, Databases, Gens
<1>2. disk.db.gen \in Nat /\ Conn.db.gen \in Nat
  BY GensAreNat
<1>3. CASE tx = None
  <2>1. disk' = r /\ tx' = None
    BY <1>3 DEF Put
  <2> QED BY <1>1, <1>2, <2>1 DEF Conn
<1>4. CASE tx # None
  <2>1. disk' = disk /\ tx' = r
    BY <1>4 DEF Put
  <2> QED BY <1>1, <1>2, <2>1 DEF Conn
<1> QED BY <1>3, <1>4

\* What a decode may write in place of r.
Rewritten(r, d) == [r EXCEPT !.db = [d EXCEPT !.raw = FALSE]]

LEMMA RewrittenIs ==
  ASSUME NEW r \in Rows, NEW d \in Databases
  PROVE  /\ Rewritten(r, d) \in Rows
         /\ Rewritten(r, d).db.gen = d.gen /\ Rewritten(r, d).db.by = d.by
         /\ Rewritten(r, d).assets = r.assets
  BY DEF Rewritten, Rows, Databases

LEMMA DecodedIs ==
  ASSUME NEW r \in Rows, NEW d \in Databases, NEW cached \in BOOLEAN,
         Decoded(r, d, cached)
  PROVE  /\ cache' = IF cached THEN ViewOf(d) ELSE cache
         /\ ViewOf(d).gen = d.gen
         /\ Put(r) \/ Put(Rewritten(r, d))
  BY DEF Decoded, Rewritten, ViewOf

\* A flush writes what is cached, or bodies into the database there is.
LEMMA PersistedIs ==
  ASSUME ImportTypeOK
  PROVE  LET r == Persisted(Conn)
         IN  /\ r \in Rows
             /\ cache # None => r.db.gen = cache.gen
             /\ cache = None => r.db.gen = Conn.db.gen /\ r.db.by = Conn.db.by
<1> DEFINE c == Conn
<1>1. c \in Rows /\ c.db \in Databases /\ Persisted(c) \in Rows
  BY ConnIsRows, PersistedIsRows DEF Rows
<1> HIDE DEF c
<1>2. CASE cache # None
  BY <1>1, <1>2 DEF Persisted, Rows, c
<1>3. CASE cache = None /\ store # None
  <2>1. Persisted(c).db = [c.db EXCEPT !.raw = FALSE, !.chats = @ \cup store]
    BY <1>1, <1>3 DEF Persisted, Rows
  <2>2. Persisted(c).db.gen = c.db.gen /\ Persisted(c).db.by = c.db.by
    BY <1>1, <2>1 DEF Databases
  <2> QED BY <1>1, <1>3, <2>2 DEF c
<1>4. CASE cache = None /\ store = None
  <2>1. Persisted(c).db = c.db
    BY <1>1, <1>4 DEF Persisted, Rows
  <2> QED BY <1>1, <1>4, <2>1 DEF c
<1> QED BY <1>2, <1>3, <1>4

\* A cold load begins from the database there is, with nothing cached.
Loaded == IF NeedsCache THEN Flushed ELSE Conn

LEMMA LoadedIs ==
  ASSUME KeepsInv, ColdLoad
  PROVE  /\ Loaded \in Rows /\ Loaded.db \in Databases /\ NeedsCache \in BOOLEAN
         /\ cache = None /\ load = None
         /\ Loaded.db.gen = Conn.db.gen /\ Loaded.db.by = Conn.db.by
         /\ \/ /\ Put(Loaded) /\ cache' = cache
               /\ load' = [cached |-> NeedsCache, db |-> Loaded.db]
            \/ Decoded(Loaded, Loaded.db, NeedsCache) /\ load' = load
<1>1. ImportTypeOK /\ MemoryOrDisk
  BY DEF KeepsInv
<1>2. NeedsCache \in BOOLEAN /\ cache = None /\ load = None
  BY <1>1 DEF ColdLoad, Wanting, NeedsCache, NeedsStore, MemoryOrDisk
<1>3. Conn \in Rows /\ Flushed \in Rows
  BY <1>1, ConnIsRows, FlushedIsRows
<1>4. /\ Persisted(Conn).db.gen = Conn.db.gen
      /\ Persisted(Conn).db.by = Conn.db.by
  BY <1>1, <1>2, PersistedIs
<1>5. Flushed.db.gen = Conn.db.gen /\ Flushed.db.by = Conn.db.by
  BY <1>4 DEF Flushed
<1>6. /\ Loaded \in Rows
      /\ Loaded.db.gen = Conn.db.gen /\ Loaded.db.by = Conn.db.by
  BY <1>3, <1>5 DEF Loaded
<1>7. Loaded.db \in Databases
  BY <1>6 DEF Rows
<1>8. \/ /\ Put(Loaded) /\ cache' = cache
         /\ load' = [cached |-> NeedsCache, db |-> Loaded.db]
      \/ Decoded(Loaded, Loaded.db, NeedsCache) /\ load' = load
  BY DEF ColdLoad, LoadsFor, Loaded
<1> QED BY <1>2, <1>6, <1>7, <1>8

\* Nothing but a commit and the decode after it brings a later database.
StaysNewest ==
    /\ NoneNewer'
    /\ disk'.db.gen <= disk.db.gen \/ Commits \/ DecodeEnds

LEMMA NoneNewerStep ==
  ASSUME KeepsInv, NoneNewer, [ImportActions]_importVars
  PROVE  StaysNewest
<1> USE DEF rows, memory, ghosts
<1>1. /\ ImportTypeOK /\ TxIsOpen /\ LoadKeeps /\ DecodeKeeps
      /\ imp \in Imports /\ Conn \in Rows
  BY ConnIsRows DEF KeepsInv, ImportTypeOK
<1>2. /\ disk.db.gen \in Nat /\ Conn.db.gen \in Nat
      /\ cache # None => cache.gen \in Nat
      /\ load # None => load.db.gen \in Nat /\ load.db \in Databases
                      /\ load.cached \in BOOLEAN
      /\ imp.raw # None => imp.raw.gen \in Nat /\ imp.raw \in Databases
  BY <1>1, GensAreNat DEF ImportTypeOK, Loads, Imports
<1>3. /\ Conn.db.gen <= disk.db.gen
      /\ cache # None => cache.gen <= Conn.db.gen
      /\ load # None => cache = None /\ load.db.gen <= Conn.db.gen
      /\ imp.pc = "decode" => disk.db.gen <= imp.raw.gen
  BY DEF NoneNewer
<1>4. ASSUME disk'.db.gen \in Nat, disk'.db.gen <= disk.db.gen,
             Conn'.db.gen <= disk'.db.gen,
             cache' # None => cache'.gen <= Conn'.db.gen,
             load' # None => cache' = None /\ load'.db.gen <= Conn'.db.gen,
             imp'.pc = "decode" => imp' = imp
      PROVE  StaysNewest
  BY <1>1, <1>2, <1>3, <1>4 DEF NoneNewer, DecodeKeeps, StaysNewest
<1>5. ASSUME NEW r \in Rows, Put(r), r.db.gen <= Conn.db.gen,
             cache' # None => cache'.gen <= r.db.gen,
             load' # None => cache' = None /\ load'.db.gen <= r.db.gen,
             imp' = imp
      PROVE  StaysNewest
  <2>1. /\ Conn' = r
        /\ r.db.gen <= disk'.db.gen /\ disk'.db.gen <= disk.db.gen
    BY <1>1, <1>3, <1>5, PutGen
  <2>2. disk'.db.gen \in Nat
    <3>1. disk' \in Rows
      BY <1>1, <1>5, PutType
    <3> QED BY <3>1, ImportAssumption DEF Rows, Databases, Gens
  <2> QED BY <1>4, <1>5, <2>1, <2>2
<1>6. ASSUME UNCHANGED <<disk, tx>>,
             cache' # None => cache'.gen <= Conn.db.gen,
             load' # None => cache' = None /\ load'.db.gen <= Conn.db.gen,
             imp'.pc = "decode" => imp' = imp
      PROVE  StaysNewest
  <2>1. Conn' = Conn
    BY <1>6 DEF Conn
  <2> QED BY <1>2, <1>3, <1>4, <1>6, <2>1
<1>7. CASE ColdLoad
  <2>1. /\ Loaded \in Rows /\ Loaded.db \in Databases /\ NeedsCache \in BOOLEAN
        /\ cache = None /\ load = None
        /\ Loaded.db.gen = Conn.db.gen
        /\ \/ /\ Put(Loaded) /\ cache' = cache
              /\ load' = [cached |-> NeedsCache, db |-> Loaded.db]
           \/ Decoded(Loaded, Loaded.db, NeedsCache) /\ load' = load
    BY <1>7, LoadedIs
  <2>2. imp' = imp
    BY <1>7 DEF ColdLoad
  <2>3. CASE /\ Put(Loaded) /\ cache' = cache
             /\ load' = [cached |-> NeedsCache, db |-> Loaded.db]
    <3>1. load'.db = Loaded.db
      BY <2>3
    <3> QED BY <1>2, <1>5, <2>1, <2>2, <2>3, <3>1
  <2>4. CASE Decoded(Loaded, Loaded.db, NeedsCache) /\ load' = load
    <3>1. /\ cache' = IF NeedsCache THEN ViewOf(Loaded.db) ELSE cache
          /\ ViewOf(Loaded.db).gen = Conn.db.gen
          /\ Put(Loaded) \/ Put(Rewritten(Loaded, Loaded.db))
      BY <2>1, <2>4, DecodedIs
    <3>2. /\ Rewritten(Loaded, Loaded.db) \in Rows
          /\ Rewritten(Loaded, Loaded.db).db.gen = Conn.db.gen
      BY <2>1, RewrittenIs
    <3> QED BY <1>2, <1>5, <2>1, <2>2, <2>4, <3>1, <3>2
  <2> QED BY <2>1, <2>3, <2>4
<1>8. CASE LoadEnds
  <2>1. /\ load # None /\ load' = None /\ imp' = imp
        /\ Decoded(Conn, load.db, load.cached)
    BY <1>8 DEF LoadEnds
  <2>2. /\ cache' = IF load.cached THEN ViewOf(load.db) ELSE None
        /\ ViewOf(load.db).gen = load.db.gen
        /\ Put(Conn) \/ Put(Rewritten(Conn, load.db))
    BY <1>1, <1>2, <1>3, <2>1, DecodedIs
  <2>3. /\ Rewritten(Conn, load.db) \in Rows
        /\ Rewritten(Conn, load.db).db.gen = load.db.gen
    BY <1>1, <1>2, <2>1, RewrittenIs
  <2> QED BY <1>1, <1>2, <1>3, <1>5, <2>1, <2>2, <2>3
<1>9. CASE RunAsset
  <2> DEFINE r == [Conn EXCEPT !.assets = @ \cup {queued.what}]
  <2>1. r \in Rows /\ r.db = Conn.db
    BY <1>1, <1>9 DEF Rows, RunAsset, Wanting, ImportTypeOK, Requests
  <2>2. Put(r) /\ UNCHANGED <<cache, load, imp>>
    BY <1>9 DEF RunAsset
  <2> HIDE DEF r
  <2> QED BY <1>2, <1>3, <1>5, <2>1, <2>2
<1>10. CASE RunPatch
  <2>1. /\ UNCHANGED <<disk, tx, load, imp>> /\ load = None
        /\ cache' = cache \/ cache' = [cache EXCEPT !.refs = @ \cup {queued.what}]
        /\ cache # None /\ cache \in Views
    BY <1>1, <1>10 DEF RunPatch, Wanting, ImportTypeOK
  <2>2. cache'.gen = cache.gen
    BY <2>1 DEF Views
  <2> QED BY <1>3, <1>6, <2>1, <2>2
<1>11. CASE TimerFires
  <2>1. /\ Put(Persisted(Conn)) /\ load = None /\ UNCHANGED <<cache, load, imp>>
    BY <1>11 DEF TimerFires
  <2>2. /\ Persisted(Conn) \in Rows
        /\ cache # None => Persisted(Conn).db.gen = cache.gen
        /\ cache = None => Persisted(Conn).db.gen = Conn.db.gen
    BY <1>1, PersistedIs
  <2> QED BY <1>2, <1>3, <1>5, <2>1, <2>2
<1>12. CASE Begins
  <2>1. /\ disk' = Flushed /\ tx' = Flushed /\ UNCHANGED <<cache, load>>
        /\ imp.pc = "begin"
    BY <1>12 DEF Begins
  <2>2. imp'.pc = "stream" /\ Conn = disk
    BY <1>1, <1>12, <2>1 DEF Begins, Imports, TxIsOpen, Conn
  <2>3. /\ Persisted(Conn) \in Rows
        /\ cache # None => Persisted(Conn).db.gen = cache.gen
        /\ cache = None => Persisted(Conn).db.gen = Conn.db.gen
    BY <1>1, PersistedIs
  <2>4. Conn' = disk'
    BY <2>1 DEF Conn
  <2>5. CASE timer
    <3>1. load = None /\ disk' = Persisted(Conn)
      BY <1>1, <2>1, <2>5 DEF LoadKeeps, Flushed
    <3> QED BY <1>2, <1>3, <1>4, <2>1, <2>2, <2>3, <2>4, <3>1
  <2>6. CASE ~timer
    <3>1. disk' = Conn
      BY <2>1, <2>6 DEF Flushed
    <3> QED BY <1>2, <1>3, <1>4, <2>1, <2>2, <2>4, <3>1
  <2> QED BY <2>5, <2>6
<1>13. ASSUME NEW a \in Assets, Streams(a) PROVE StaysNewest
  <2>1. tx # None /\ tx \in Rows
    BY <1>1, <1>13 DEF Streams, TxIsOpen, ImportTypeOK
  <2>2. /\ tx' = [tx EXCEPT !.assets = @ \cup {a}] /\ disk' \in {disk, tx'}
        /\ imp'.pc = "stream" /\ UNCHANGED <<cache, load>>
    BY <1>1, <1>13 DEF Streams, Imports
  <2>3. tx' \in Rows /\ tx'.db = tx.db
    BY <2>1, <2>2 DEF Rows
  <2>4. tx' # None
    BY <2>3, NoneAssumption
  <2>5. Conn = tx /\ Conn' = tx'
    BY <2>1, <2>4 DEF Conn
  <2>6. Conn'.db.gen = Conn.db.gen /\ disk'.db.gen \in {disk.db.gen, Conn.db.gen}
    BY <2>2, <2>3, <2>5
  <2>7. UNCHANGED <<cache, load>> /\ imp'.pc # "decode"
    BY <2>2
  <2>8. /\ disk'.db.gen \in Nat /\ disk'.db.gen <= disk.db.gen
        /\ Conn'.db.gen <= disk'.db.gen
    BY <1>2, <1>3, <2>6
  <2> QED BY <1>3, <1>4, <2>6, <2>7, <2>8
<1>14. CASE Commits
  <2>1. /\ disk'.db.gen = disk.db.gen + 1 /\ tx' = None /\ cache' = None
        /\ load' = load
    BY <1>14 DEF Commits, Imported
  <2>2. Conn' = disk' /\ imp'.pc # "decode"
    BY <1>1, <1>14, <2>1 DEF Conn, Commits, Imports
  <2> QED BY <1>2, <1>3, <1>14, <2>1, <2>2 DEF NoneNewer, StaysNewest
<1>15. CASE Swaps
  <2>1. /\ UNCHANGED <<disk, tx, cache, load>> /\ imp'.raw = Conn.db
        /\ imp.pc = "swap"
    BY <1>1, <1>15 DEF Swaps, Imports
  <2>2. Conn = disk /\ Conn' = Conn
    BY <1>1, <2>1 DEF Conn, TxIsOpen
  <2> QED BY <1>2, <1>3, <2>1, <2>2 DEF NoneNewer, StaysNewest
<1>16. CASE DecodeEnds
  <2>1. /\ imp.pc = "decode" /\ imp'.pc = "done" /\ load' = load
        /\ imp.raw # None /\ Conn = disk /\ tx = None
        /\ Decoded(Conn, imp.raw, FALSE)
    BY <1>1, <1>16 DEF DecodeEnds, Imports, DecodeKeeps, TxIsOpen, Conn
  <2>2. cache' = cache /\ (Put(Conn) \/ Put(Rewritten(Conn, imp.raw)))
    BY <1>1, <1>2, <2>1, DecodedIs
  <2>3. Rewritten(Conn, imp.raw).db.gen = imp.raw.gen
    BY <1>1, <1>2, <2>1, RewrittenIs
  <2>4. /\ disk' = Conn \/ disk' = Rewritten(Conn, imp.raw)
        /\ tx' = None
    BY <2>1, <2>2 DEF Put
  <2>5. Conn' = disk' /\ disk.db.gen <= disk'.db.gen /\ disk'.db.gen \in Nat
    BY <1>2, <1>3, <2>1, <2>3, <2>4 DEF Conn
  <2> QED BY <1>2, <1>3, <1>16, <2>1, <2>2, <2>5 DEF NoneNewer, StaysNewest
<1>17. CASE Fails
  <2>1. /\ disk'.db = disk.db /\ tx' = None /\ UNCHANGED <<cache, load>>
        /\ imp'.pc = "failed"
    BY <1>1, <1>17 DEF Fails, ImportTypeOK, Rows, Imports
  <2>2. Conn'.db = disk.db
    BY <2>1 DEF Conn
  <2> QED BY <1>2, <1>3, <1>4, <2>1, <2>2
<1>18. CASE Restarts
  <2>1. /\ disk' = disk /\ tx' = None /\ cache' = None /\ load' = None
        /\ imp'.pc = "idle"
    BY <1>18 DEF Restarts, NoImport
  <2>2. Conn' = disk
    BY <2>1 DEF Conn
  <2> QED BY <1>2, <1>4, <2>1, <2>2
<1>19. CASE Drained \/ NoRoom \/ StreamEnds \/ SwapFails
  <2>1. UNCHANGED <<disk, tx, cache, load>>
    BY <1>19 DEF Drained, NoRoom, StreamEnds, SwapFails
  <2>2. imp'.pc # "decode"
    BY <1>1, <1>19 DEF Drained, NoRoom, StreamEnds, SwapFails, Imports
  <2> QED BY <1>3, <1>6, <2>1, <2>2
<1>20. CASE UploadStarts \/ UploadEnds \/ AccountReturns
            \/ \E v \in Versions, plan \in SUBSET NewAssets : AccountApplies(v, plan)
  <2>1. UNCHANGED <<disk, tx, cache, load>>
    BY <1>20 DEF UploadStarts, UploadEnds, AccountReturns, AccountApplies
  <2>2. imp'.pc \in {"idle", "begin", "drain"}
    <3>1. NoImport.pc = "idle"
      BY DEF NoImport
    <3>2. CASE UploadEnds \/ AccountReturns
      BY <3>1, <3>2 DEF UploadEnds, AccountReturns
    <3>3. CASE UploadStarts
      BY <3>3 DEF UploadStarts, NoImport
    <3>4. ASSUME NEW v \in Versions, NEW plan \in SUBSET NewAssets,
                 AccountApplies(v, plan)
          PROVE  imp'.pc = "drain"
      BY <3>4 DEF AccountApplies, NoImport
    <3> QED BY <1>20, <3>2, <3>3, <3>4
  <2> QED BY <1>3, <1>6, <2>1, <2>2
<1>21. CASE RunPost \/ RunRead \/ AccountBlocks \/ AccountUnblocks
            \/ UNCHANGED importVars \/ \E r \in Requests : Arrives(r)
  <2>1. UNCHANGED <<disk, tx, cache, load, imp>>
    BY <1>21
       DEF RunPost, RunRead, AccountBlocks, AccountUnblocks, importVars, Arrives
  <2> QED BY <1>3, <1>6, <2>1
<1> QED
  BY <1>7, <1>8, <1>9, <1>10, <1>11, <1>12, <1>13, <1>14, <1>15, <1>16, <1>17,
     <1>18, <1>19, <1>20, <1>21
     DEF ImportActions, ImportNext, QueueSteps, ImportSteps, AccountSteps,
         RestartsBlocking

\* The database that is there, whatever else a step writes with it.
Same == disk'.db.gen = disk.db.gen /\ disk'.db.by = disk.db.by

Settles ==
    /\ Same \/ Settled'
    /\ Settled => Settled' /\ disk'.db.gen = disk.db.gen

\* While an import swaps and decodes, what puts another database on disk than
\* the imported one leaves none of it anywhere else.
LEMMA SettlesStep ==
  ASSUME KeepsInv, NoneNewer, [ImportActions]_importVars,
         imp' = imp, imp.pc \in {"swap", "decode"}
  PROVE  Settles
<1> USE DEF rows, memory, ghosts
<1>1. /\ ImportTypeOK /\ imp \in Imports /\ tx = None /\ Conn = disk
      /\ disk \in Rows
  BY DEF KeepsInv, ImportTypeOK, TxIsOpen, Conn
<1>2. load # None => /\ load.db \in Databases /\ load.cached \in BOOLEAN
                     /\ cache = None
  BY <1>1 DEF ImportTypeOK, Loads, NoneNewer
<1>3. ASSUME NEW r, Put(r) PROVE disk' = r
  BY <1>1, <1>3 DEF Put
<1>4. CASE ColdLoad
  <2>1. /\ Loaded \in Rows /\ Loaded.db \in Databases /\ NeedsCache \in BOOLEAN
        /\ cache = None /\ load = None
        /\ Loaded.db.gen = disk.db.gen /\ Loaded.db.by = disk.db.by
        /\ \/ /\ Put(Loaded) /\ cache' = cache
              /\ load' = [cached |-> NeedsCache, db |-> Loaded.db]
           \/ Decoded(Loaded, Loaded.db, NeedsCache) /\ load' = load
    BY <1>1, <1>4, LoadedIs
  <2>2. CASE /\ Put(Loaded) /\ cache' = cache
             /\ load' = [cached |-> NeedsCache, db |-> Loaded.db]
    <3>1. load'.db = Loaded.db /\ disk' = Loaded
      BY <1>3, <2>2
    <3> QED BY <2>1, <2>2, <3>1 DEF Settles, Settled, Same
  <2>3. CASE Decoded(Loaded, Loaded.db, NeedsCache) /\ load' = load
    <3>1. /\ cache' = IF NeedsCache THEN ViewOf(Loaded.db) ELSE cache
          /\ ViewOf(Loaded.db).gen = disk.db.gen
          /\ disk' = Loaded \/ disk' = Rewritten(Loaded, Loaded.db)
      BY <1>3, <2>1, <2>3, DecodedIs
    <3>2. /\ Rewritten(Loaded, Loaded.db).db.gen = disk.db.gen
          /\ Rewritten(Loaded, Loaded.db).db.by = disk.db.by
      BY <2>1, RewrittenIs
    <3> QED BY <2>1, <2>3, <3>1, <3>2 DEF Settles, Settled, Same
  <2> QED BY <2>1, <2>2, <2>3
<1>5. CASE LoadEnds
  <2>1. /\ load # None /\ load' = None
        /\ Decoded(Conn, load.db, load.cached)
    BY <1>5 DEF LoadEnds
  <2>2. /\ cache' = IF load.cached THEN ViewOf(load.db) ELSE None
        /\ ViewOf(load.db).gen = load.db.gen
        /\ disk' = disk \/ disk' = Rewritten(disk, load.db)
    BY <1>1, <1>2, <1>3, <2>1, DecodedIs
  <2>3. Rewritten(disk, load.db).db.gen = load.db.gen
    BY <1>1, <1>2, <2>1, RewrittenIs
  <2> QED BY <2>1, <2>2, <2>3 DEF Settles, Settled, Same
<1>6. CASE RunAsset
  <2>1. Put([disk EXCEPT !.assets = @ \cup {queued.what}])
        /\ UNCHANGED <<cache, load>>
    BY <1>1, <1>6 DEF RunAsset
  <2>2. disk'.db = disk.db
    BY <1>1, <1>3, <2>1 DEF Rows
  <2> QED BY <2>1, <2>2 DEF Settles, Settled, Same
<1>7. CASE RunPatch
  <2>1. /\ UNCHANGED <<disk, load>>
        /\ cache' = cache \/ cache' = [cache EXCEPT !.refs = @ \cup {queued.what}]
        /\ cache # None /\ cache \in Views
    BY <1>1, <1>7 DEF RunPatch, ImportTypeOK
  <2>2. cache'.gen = cache.gen
    BY <2>1 DEF Views
  <2> QED BY <2>1, <2>2 DEF Settles, Settled, Same
<1>8. CASE TimerFires
  <2>1. /\ disk' = Persisted(Conn) /\ load = None /\ UNCHANGED <<cache, load>>
    BY <1>3, <1>8 DEF TimerFires
  <2>2. /\ cache # None => disk'.db.gen = cache.gen
        /\ cache = None => disk'.db.gen = disk.db.gen /\ disk'.db.by = disk.db.by
    BY <1>1, <2>1, PersistedIs
  <2> QED BY <2>1, <2>2 DEF Settles, Settled, Same
<1>9. CASE RunPost \/ RunRead \/ AccountBlocks \/ AccountUnblocks
           \/ UNCHANGED importVars \/ \E r \in Requests : Arrives(r)
  <2>1. UNCHANGED <<disk, cache, load>>
    BY <1>9
       DEF RunPost, RunRead, AccountBlocks, AccountUnblocks, importVars, Arrives
  <2> QED BY <2>1 DEF Settles, Settled, Same
<1>10. ASSUME ImportActions
       PROVE  \/ ColdLoad \/ LoadEnds \/ RunAsset \/ RunPatch \/ TimerFires
              \/ RunPost \/ RunRead \/ AccountBlocks \/ AccountUnblocks
              \/ \E r \in Requests : Arrives(r)
  <2>1. NoImport.pc = "idle"
    BY DEF NoImport
  <2>2. ~Drained /\ ~NoRoom /\ ~Begins /\ ~(\E a \in Assets : Streams(a))
        /\ ~StreamEnds /\ ~Commits /\ ~Fails /\ ~UploadEnds
    BY DEF Drained, NoRoom, Begins, Streams, StreamEnds, Commits, Fails, UploadEnds
  <2>3. ~UploadStarts /\ ~AccountReturns /\ ~Restarts
        /\ ~(\E v \in Versions, plan \in SUBSET NewAssets : AccountApplies(v, plan))
    BY <2>1 DEF UploadStarts, AccountReturns, AccountApplies, Restarts
  <2>4. ~Swaps /\ ~DecodeEnds /\ ~SwapFails
    <3>1. Swaps => imp.pc = "swap" /\ imp'.pc = "decode"
      BY <1>1 DEF Swaps, Imports
    <3>2. DecodeEnds => imp'.pc = "done"
      BY <1>1 DEF DecodeEnds, Imports
    <3>3. SwapFails => imp'.pc = "failed"
      BY <1>1 DEF SwapFails, Imports
    <3> QED BY <3>1, <3>2, <3>3
  <2> QED
    BY <1>10, <2>2, <2>3, <2>4
       DEF ImportActions, ImportNext, QueueSteps, ImportSteps, AccountSteps,
           RestartsBlocking
<1> QED BY <1>4, <1>5, <1>6, <1>7, <1>8, <1>9, <1>10

\* Where the import goes on from, as far as what it brought is concerned.
LEMMA ReplaceStep ==
  ASSUME KeepsInv, ReplaceInv, [ImportActions]_importVars
  PROVE  ReplaceInv'
<1> USE DEF rows, memory, ghosts
<1>1. /\ ImportTypeOK /\ NoneNewer /\ Replaced /\ Brought /\ TxIsOpen
      /\ imp \in Imports
  BY DEF KeepsInv, ReplaceInv, ImportTypeOK
<1>2. NoneNewer'
  BY <1>1, NoneNewerStep DEF StaysNewest
<1>3. CASE imp' = imp
  <2>1. imp.pc \in {"swap", "decode"} => Settles
    BY <1>1, <1>3, SettlesStep
  <2>2. Replaced'
    BY <1>1, <1>3, <2>1 DEF Replaced, Settles, Same
  <2>3. imp.pc \in {"swap", "decode"} => acked.assets \subseteq acked'.assets
    <3>1. NoImport.pc = "idle"
      BY DEF NoImport
    <3>2. CASE RunAsset \/ RunPatch \/ RunPost
      BY <1>1, <3>2 DEF RunAsset, RunPatch, RunPost, ImportTypeOK
    <3>3. CASE acked' = acked
      BY <3>3
    <3>4. Commits \/ Restarts => imp.pc \notin {"swap", "decode"}
      BY <1>3, <3>1 DEF Commits, Restarts
    <3> QED
      BY <3>2, <3>3, <3>4
         DEF ImportActions, ImportNext, QueueSteps, ImportSteps, AccountSteps,
             RestartsBlocking, Arrives, ColdLoad, LoadEnds, RunRead, TimerFires,
             UploadStarts, Drained, Begins, Streams, StreamEnds, Swaps,
             DecodeEnds, UploadEnds, Fails, SwapFails, NoRoom, AccountBlocks,
             AccountUnblocks, AccountReturns, AccountApplies, importVars
  <2>4. Brought'
    BY <1>1, <1>3, <2>3 DEF Brought
  <2> QED BY <1>2, <2>2, <2>4 DEF ReplaceInv
<1>4. CASE StreamEnds
  <2>1. imp'.pc = "check" /\ imp'.plan = imp'.brought
    BY <1>1, <1>4 DEF StreamEnds, Imports
  <2> QED BY <1>2, <2>1 DEF ReplaceInv, Replaced, Brought
<1>5. CASE Commits
  <2>1. /\ imp.pc = "check" /\ imp'.pc = "swap" /\ imp'.by = imp.by
        /\ imp'.plan = imp.plan /\ imp'.brought = imp.brought
    BY <1>1, <1>5 DEF Commits, Imports
  <2>2. disk'.db.by = imp.by /\ acked'.assets = imp.brought
    BY <1>5 DEF Commits, Imported
  <2> QED BY <1>1, <1>2, <2>1, <2>2 DEF ReplaceInv, Replaced, Brought
<1>6. CASE Swaps
  <2>1. /\ imp.pc = "swap" /\ imp'.pc = "decode" /\ imp'.by = imp.by
        /\ imp'.plan = imp.plan /\ imp'.brought = imp.brought
        /\ imp'.raw = disk.db
        /\ UNCHANGED <<disk, cache, load, acked>>
    BY <1>1, <1>6 DEF Swaps, Imports, TxIsOpen, Conn
  <2> QED BY <1>1, <1>2, <2>1 DEF ReplaceInv, Replaced, Brought, Settled
<1>7. CASE Drained \/ NoRoom \/ Begins \/ (\E a \in Assets : Streams(a))
           \/ DecodeEnds \/ Fails \/ SwapFails
  <2>1. imp'.pc \in {"begin", "full", "stream", "done", "failed"}
    BY <1>1, <1>7
       DEF Drained, NoRoom, Begins, Streams, DecodeEnds, Fails, SwapFails, Imports
  <2> QED BY <1>2, <2>1 DEF ReplaceInv, Replaced, Brought
<1>8. CASE UploadStarts \/ UploadEnds \/ AccountReturns \/ Restarts
           \/ \E v \in Versions, plan \in SUBSET NewAssets : AccountApplies(v, plan)
  <2>1. NoImport.pc = "idle"
    BY DEF NoImport
  <2>2. CASE UploadEnds \/ AccountReturns \/ Restarts
    <3>1. imp'.pc = "idle"
      BY <2>1, <2>2 DEF UploadEnds, AccountReturns, Restarts
    <3> QED BY <1>2, <3>1 DEF ReplaceInv, Replaced, Brought
  <2>3. CASE UploadStarts
    <3>1. imp'.pc = "begin"
      BY <2>3 DEF UploadStarts, NoImport
    <3> QED BY <1>2, <3>1 DEF ReplaceInv, Replaced, Brought
  <2>4. ASSUME NEW v \in Versions, NEW plan \in SUBSET NewAssets,
               AccountApplies(v, plan)
        PROVE  ReplaceInv'
    <3>1. imp'.pc = "drain"
      BY <2>4 DEF AccountApplies, NoImport
    <3> QED BY <1>2, <3>1 DEF ReplaceInv, Replaced, Brought
  <2> QED BY <1>8, <2>2, <2>3, <2>4
<1> QED
  BY <1>3, <1>4, <1>5, <1>6, <1>7, <1>8
     DEF ImportActions, ImportNext, QueueSteps, ImportSteps, AccountSteps,
         RestartsBlocking, Arrives, ColdLoad, LoadEnds, RunAsset, RunPatch, RunPost,
         RunRead, TimerFires, AccountBlocks, AccountUnblocks, importVars

LEMMA ReplaceInit == ImportInit => ReplaceInv
<1> SUFFICES ASSUME ImportInit PROVE ReplaceInv
  OBVIOUS
<1>1. /\ disk.db.gen = 0 /\ tx = None /\ cache = None /\ load = None
      /\ imp.pc = "idle"
  BY DEF ImportInit, FirstDb, NoImport
<1>2. Conn = disk
  BY <1>1 DEF Conn
<1> QED BY <1>1, <1>2 DEF ReplaceInv, NoneNewer, Replaced, Brought

\* A later database is the running import's, with the files it planned.
LEMMA RaiseStep ==
  ASSUME KeepsInv, ReplaceInv, [ImportActions]_importVars,
         disk'.db.gen > disk.db.gen
  PROVE  /\ disk'.db.by = imp.by /\ imp.plan \subseteq disk'.assets
         /\ imp.pc \in {"check", "decode"}
<1>1. /\ ImportTypeOK /\ NoneNewer /\ Replaced /\ Brought /\ TxIsOpen
      /\ DecodeKeeps /\ AckedIsKept /\ imp \in Imports /\ disk \in Rows
      /\ disk.db.gen \in Nat
  BY GensAreNat DEF KeepsInv, ReplaceInv, ImportTypeOK
<1>2. Commits \/ DecodeEnds
  <2>1. disk'.db.gen <= disk.db.gen \/ Commits \/ DecodeEnds
    BY <1>1, NoneNewerStep DEF StaysNewest
  <2>2. disk'.db.gen \in Nat
    BY <1>1, TypeStep, ImportAssumption
       DEF ImportTypeOK, Rows, Databases, Gens
  <2> QED BY <1>1, <2>1, <2>2
<1>3. CASE Commits
  BY <1>1, <1>3 DEF Commits, Imported, Brought
<1>4. CASE DecodeEnds
  <2>1. /\ imp.pc = "decode" /\ imp.raw \in Databases /\ Conn = disk /\ tx = None
        /\ Decoded(Conn, imp.raw, FALSE)
    BY <1>1, <1>4 DEF DecodeEnds, Imports, DecodeKeeps, TxIsOpen, Conn
  <2>2. disk' = disk \/ disk' = Rewritten(disk, imp.raw)
    BY <1>1, <2>1, DecodedIs DEF Put
  <2>3. disk' = Rewritten(disk, imp.raw)
    BY <1>1, <2>2
  <2>4. /\ disk'.db.gen = imp.raw.gen /\ disk'.db.by = imp.raw.by
        /\ disk'.assets = disk.assets
    BY <1>1, <2>1, <2>3, RewrittenIs
  <2>5. disk'.db.by = imp.by
    BY <1>1, <2>1, <2>4 DEF Replaced
  <2>6. imp.plan \subseteq disk'.assets
    BY <1>1, <2>1, <2>4 DEF Brought, AckedIsKept
  <2> QED BY <2>1, <2>5, <2>6
<1> QED BY <1>2, <1>3, <1>4

---------------------------------------------------------------------------
(* What the account's part rests on.                                       *)

\* An import runs while the state says so; what is left of it when it is done
\* is the removal of its files.
ApplyingIs ==
    /\ imp.src = "account" <=> state = "applying" /\ job # None
    /\ imp.src = "account" => blocking
    /\ state = "applying" /\ job = None => ~blocking /\ ~token

\* A cancel leaves nothing but a check and a download that have to stop.
CancellingIs ==
    /\ cancelling => /\ state = "idle" /\ job = None
                     /\ ~blocking /\ ~token
    /\ prep # None /\ prep.aborted => cancelling
    /\ loop # None /\ loop.aborted => cancelling

\* A check has no plan yet, and composes the marker its gate calls for.
PrepIs ==
    /\ prep # None => job = None
    /\ prep # None /\ ~prep.aborted => state = "preparing" /\ ~cancelling
    /\ prep # None /\ ~prep.aborted /\ prep.pc # "read" =>
         /\ prep.db \in Versions
         /\ blocking \/ prep.pc # "stage" => staged = prep.db
    /\ prep # None /\ prep.pc = "meta" =>
         /\ blocking => prep.meta = "started"
         /\ prep.meta = "started" => blocking \/ cancelling

\* A download has a plan, whose files it has when it ends.
LoopIs ==
    /\ Going => /\ state = "downloading" /\ blocking /\ job # None
                /\ NewAssets \ (job.missing \cup loop.todo) \subseteq files
    /\ state = "downloaded" => blocking /\ job # None

\* A marker on disk refuses writes, or is about to go.
MarkerIs == meta = "started" => \/ blocking \/ cancelling
                                \/ state = "applying" \/ leftover

AccountInv ==
    /\ AccountTypeOK /\ ApplyingIs /\ CancellingIs /\ PrepIs /\ LoopIs
    /\ MarkerIs
    /\ PlanIsStaged /\ BlockingSurvives /\ TokenAtRest

\* What is to be applied is what the user confirmed, also after a restart
\* that finds the marker; a check that was cancelled finds none.
ConfirmedIs ==
    /\ ~leftover /\ (\/ blocking \/ meta = "started"
                     \/ prep # None /\ prep.pc = "meta" /\ prep.meta = "started")
         => staged = approved
    /\ cancelling /\ prep # None /\ prep.pc \in {"read", "stage"}
         => meta # "started"

\* The import applies what is staged.
ImportIs ==
    imp.src = "account" =>
        imp.by = staged /\ NewAssets \ job.missing \subseteq imp.plan

ConfirmInv == ConfirmedIs /\ ImportIs

Inv == IInv /\ AccountInv /\ ReplaceInv /\ ConfirmInv

---------------------------------------------------------------------------
(* Each step is one of DataImport's, or leaves its variables alone.        *)

LEMMA StepIsImport ==
  ASSUME Inv, [Next]_vars
  PROVE  [ImportActions]_importVars
<1> USE DEF rows, memory, ghosts, serverVars, importVars
<1>1. /\ AccountTypeOK /\ ApplyingIs /\ LoopIs /\ PlanIsStaged
      /\ ImportTypeOK /\ TxIsOpen
  BY DEF Inv, AccountInv, IInv, KeepsInv
<1>2. CASE ImportNext
  BY <1>2 DEF ImportActions
<1>3. CASE UNCHANGED importVars
  BY <1>3
<1>4. CASE StartDownload
  <2>1. CASE blocking
    BY <1>1, <1>4, <2>1 DEF StartDownload, ImportTypeOK
  <2>2. CASE ~blocking
    BY <1>4, <2>2 DEF StartDownload, Allowed, AccountBlocks, ImportActions, AccountSteps
  <2> QED BY <2>1, <2>2
<1>5. CASE Cancel
  <2>1. CASE blocking
    BY <1>1, <1>5, <2>1
       DEF Cancel, ApplyingIs, AccountUnblocks, ImportActions, AccountSteps
  <2>2. CASE ~blocking
    BY <1>1, <1>5, <2>2 DEF Cancel, ImportTypeOK
  <2> QED BY <2>1, <2>2
<1>6. CASE DownloadEnds \/ StartApply
  <2>1. /\ blocking /\ job # None /\ job \in Jobs /\ staged = job.db
        /\ UNCHANGED serverVars /\ blocking' = blocking /\ faults' = faults
        /\ Applies \/ imp' = imp
    BY <1>1, <1>6
       DEF DownloadEnds, StartApply, LoopIs, PlanIsStaged, AccountTypeOK
  <2>2. CASE imp' = imp
    BY <2>1, <2>2
  <2>3. CASE Applies /\ imp' # imp
    <3>1. AccountApplies(staged, NewAssets \ job.missing)
      BY <2>1, <2>3 DEF Applies, Applying, AccountApplies
    <3> QED BY <2>1, <3>1 DEF Jobs, ImportActions, AccountSteps
  <2> QED BY <2>1, <2>2, <2>3
<1>7. CASE ApplyFailed \/ Applied
  <2>1. AccountReturns
    BY <1>1, <1>7 DEF ApplyFailed, Applied, AccountReturns, ApplyingIs, Revoked
  <2> QED BY <2>1 DEF ImportActions, AccountSteps
<1>8. CASE Restart
  BY <1>8 DEF Restart, RestartsBlocking, ImportActions
<1>9. CASE \/ \E v \in Versions : PrepareReads(v)
           \/ PrepareStages \/ MetaLands \/ PrepareEnds \/ PrepareStops
           \/ (\E a \in Assets : Fetches(a)) \/ DownloadAborted \/ CleansUp
           \/ CancelEnds \/ Prepare \/ PrepareFails \/ DownloadStops
           \/ UNCHANGED vars
  <2>1. UNCHANGED importVars
    BY <1>9
       DEF PrepareReads, PrepareStages, MetaLands, PrepareEnds, PrepareStops,
           Fetches, DownloadAborted, CleansUp, CancelEnds, Prepare,
           PrepareFails, DownloadStops, vars
  <2> QED BY <1>3, <2>1
<1> QED BY <1>2, <1>4, <1>5, <1>6, <1>7, <1>8, <1>9 DEF Next, Working

---------------------------------------------------------------------------
(* Every step keeps what is said of the account's part.                    *)

\* DataImport's own steps neither start nor end an account's import, and
\* refuse no write.
LEMMA ServerStep ==
  ASSUME Inv, ImportNext, UNCHANGED accountVars
  PROVE  AccountInv'
<1> USE DEF rows, memory, ghosts
<1>1. AccountInv /\ ImportTypeOK /\ imp \in Imports
  BY DEF Inv, IInv, KeepsInv, ImportTypeOK
<1>2. blocking' = blocking
  BY DEF ImportNext, QueueSteps, ImportSteps, Arrives, ColdLoad, RunAsset,
         RunPatch, RunPost, RunRead, LoadEnds, TimerFires, UploadStarts, Drained,
         Begins, Streams, StreamEnds, Commits, Swaps, DecodeEnds, UploadEnds,
         Fails, SwapFails, NoRoom
<1>3. imp'.src = "account" <=> imp.src = "account"
  <2>1. CASE UploadStarts \/ UploadEnds
    <3>1. NoImport.src = "none"
      BY DEF NoImport
    <3>2. CASE UploadStarts
      BY <3>1, <3>2 DEF UploadStarts, NoImport
    <3>3. CASE UploadEnds
      BY <3>1, <3>3 DEF UploadEnds
    <3> QED BY <2>1, <3>2, <3>3
  <2>2. CASE QueueSteps \/ TimerFires \/ \E r \in Requests : Arrives(r)
    BY <2>2
       DEF QueueSteps, Arrives, ColdLoad, RunAsset, RunPatch, RunPost, RunRead,
           LoadEnds, TimerFires
  <2>3. CASE Drained \/ Begins \/ (\E a \in Assets : Streams(a)) \/ StreamEnds
             \/ Commits \/ Swaps \/ DecodeEnds \/ Fails \/ SwapFails \/ NoRoom
    BY <1>1, <2>3
       DEF Drained, Begins, Streams, StreamEnds, Commits, Swaps, DecodeEnds,
           Fails, SwapFails, NoRoom, Imports
  <2> QED BY <2>1, <2>2, <2>3 DEF ImportNext, ImportSteps
<1> QED
  BY <1>1, <1>2, <1>3
     DEF AccountInv, AccountTypeOK, ApplyingIs, CancellingIs, PrepIs, LoopIs,
         MarkerIs, PlanIsStaged, BlockingSurvives, TokenAtRest, Going,
         accountVars, stagingVars

LEMMA NewDownloadIs ==
  /\ NewDownload \in Downloads /\ NewDownload # None
  /\ NewDownload.todo = NewAssets /\ NewDownload.aborted = FALSE
<1>1. NewDownload \in Downloads
  BY ImportAssumption DEF NewDownload, Downloads
<1>2. NewDownload.todo = NewAssets /\ NewDownload.aborted = FALSE
  BY DEF NewDownload
<1> QED BY <1>1, <1>2, NoneOfAccount

LEMMA AccountStep ==
  ASSUME Inv, [Next]_vars
  PROVE  AccountInv'
<1> USE DEF stagingVars, accountVars
<1>1. /\ AccountTypeOK /\ ApplyingIs /\ CancellingIs /\ PrepIs /\ LoopIs
      /\ MarkerIs /\ PlanIsStaged /\ BlockingSurvives /\ TokenAtRest
  BY DEF Inv, AccountInv
<1>2. CASE ImportNext /\ UNCHANGED accountVars
  BY <1>2, ServerStep
<1>3. ASSUME NEW v \in Versions, PrepareReads(v) PROVE AccountInv'
  <2>1. /\ prep # None /\ ~prep.aborted /\ prep.pc = "read"
        /\ prep' \in Preps /\ prep' # None /\ prep'.pc = "stage"
        /\ prep'.db = v
        /\ prep'.aborted = FALSE
        /\ blocking => v = staged
        /\ UNCHANGED <<imp, blocking, state, token, job, loop, cancelling,
                       meta, staged, files, approved, leftover>>
    BY <1>1, <1>3, NoneOfAccount
       DEF PrepareReads, AccountTypeOK, Preps, Origins, Metas, importVars
  <2>2. AccountTypeOK'
    BY <1>1, <2>1 DEF AccountTypeOK, Origins, Metas, States
  <2> QED
    BY <1>1, <2>1, <2>2
       DEF AccountInv, ApplyingIs, CancellingIs, PrepIs, LoopIs, MarkerIs,
           PlanIsStaged, BlockingSurvives, TokenAtRest, Going
<1>4. CASE PrepareStages
  <2>1. /\ prep # None /\ prep.pc = "stage" /\ prep.db \in Origins
        /\ prep' \in Preps /\ prep' # None /\ prep'.pc = "meta"
        /\ prep'.db = prep.db /\ prep'.aborted = prep.aborted
        /\ prep'.meta = IF blocking THEN "started" ELSE "prepared"
        /\ blocking => staged' = staged /\ files' = files /\ meta' = meta
        /\ ~blocking => staged' = prep.db
        /\ meta' \in {meta, "none"} /\ files' \in {files, {}}
        /\ UNCHANGED <<imp, blocking, state, token, job, loop, cancelling,
                       approved, leftover>>
    BY <1>1, <1>4, NoneOfAccount
       DEF PrepareStages, AccountTypeOK, Preps, Origins, Metas, importVars
  <2>2. AccountTypeOK'
    BY <1>1, <2>1 DEF AccountTypeOK, Origins, Metas, States
  <2> QED
    BY <1>1, <2>1, <2>2
       DEF AccountInv, ApplyingIs, CancellingIs, PrepIs, LoopIs, MarkerIs,
           PlanIsStaged, BlockingSurvives, TokenAtRest, Going
<1>5. CASE MetaLands
  <2>1. /\ prep # None /\ prep.pc = "meta" /\ meta' = prep.meta
        /\ prep.meta \in Metas
        /\ prep' \in Preps /\ prep' # None /\ prep'.pc = "end"
        /\ prep'.db = prep.db /\ prep'.aborted = prep.aborted
        /\ UNCHANGED <<imp, blocking, state, token, job, loop, cancelling,
                       staged, files, approved, leftover>>
    BY <1>1, <1>5, NoneOfAccount
       DEF MetaLands, AccountTypeOK, Preps, Origins, Metas, importVars
  <2>2. AccountTypeOK'
    BY <1>1, <2>1 DEF AccountTypeOK, Origins, Metas, States
  <2> QED
    BY <1>1, <2>1, <2>2
       DEF AccountInv, ApplyingIs, CancellingIs, PrepIs, LoopIs, MarkerIs,
           PlanIsStaged, BlockingSurvives, TokenAtRest, Going
<1>6. CASE PrepareEnds
  <2>1. /\ prep # None /\ prep.pc = "end" /\ ~prep.aborted /\ prep' = None
        /\ job' = [db |-> prep.db, missing |-> {}]
        /\ blocking => state' = "downloading" /\ loop' = NewDownload
        /\ ~blocking => state' = "ready" /\ loop' = loop
        /\ UNCHANGED <<imp, blocking, token, cancelling, meta, staged, files,
                       approved, leftover>>
    BY <1>6 DEF PrepareEnds, importVars
  <2>2. prep.db \in Versions
    BY <1>1, <2>1 DEF PrepIs
  <2>3. job' \in Jobs /\ job' # None /\ job'.db = prep.db /\ job'.missing = {}
    BY <2>1, <2>2, NoneOfAccount DEF Jobs
  <2>4. AccountTypeOK'
    BY <1>1, <2>1, <2>3, NewDownloadIs DEF AccountTypeOK, Origins, Metas, States
  <2> QED
    BY <1>1, <2>1, <2>3, <2>4, NewDownloadIs
       DEF AccountInv, ApplyingIs, CancellingIs, PrepIs, LoopIs, MarkerIs,
           PlanIsStaged, BlockingSurvives, TokenAtRest, Going
<1>7. CASE PrepareStops
  <2>1. /\ prep # None /\ prep.aborted /\ prep' = None
        /\ UNCHANGED <<imp, blocking, state, token, job, loop, cancelling,
                       meta, staged, files, approved, leftover>>
    BY <1>1, <1>7, NoneOfAccount
       DEF PrepareStops, importVars
  <2>2. AccountTypeOK'
    BY <1>1, <2>1 DEF AccountTypeOK, Origins, Metas, States
  <2> QED
    BY <1>1, <2>1, <2>2
       DEF AccountInv, ApplyingIs, CancellingIs, PrepIs, LoopIs, MarkerIs,
           PlanIsStaged, BlockingSurvives, TokenAtRest, Going
<1>8. CASE Prepare
  <2>1. /\ ~cancelling /\ state \notin {"preparing", "downloading", "applying"}
        /\ job' = None /\ state' = "preparing" /\ token' = TRUE
        /\ prep' = [pc |-> "read", db |-> NoVersion, meta |-> "none",
                    aborted |-> FALSE]
        /\ UNCHANGED <<imp, blocking, loop, cancelling, meta, staged, files,
                       approved, leftover>>
    BY <1>8 DEF Prepare, Busy, importVars
  <2>2. /\ prep' \in Preps /\ prep' # None
        /\ prep'.pc = "read" /\ prep'.aborted = FALSE
    <3> DEFINE new == [pc |-> "read", db |-> NoVersion, meta |-> "none",
                       aborted |-> FALSE]
    <3>1. new \in Preps
      BY DEF Preps, Origins, Metas
    <3>2. new.pc = "read" /\ new.aborted = FALSE
      OBVIOUS
    <3> HIDE DEF new
    <3>3. prep' = new
      BY <2>1 DEF new
    <3> QED BY <3>1, <3>2, <3>3, NoneOfAccount
  <2>3. AccountTypeOK'
    BY <1>1, <2>1, <2>2 DEF AccountTypeOK, Origins, Metas, States
  <2> QED
    BY <1>1, <2>1, <2>2, <2>3
       DEF AccountInv, ApplyingIs, CancellingIs, PrepIs, LoopIs, MarkerIs,
           PlanIsStaged, BlockingSurvives, TokenAtRest, Going
<1>9. CASE PrepareFails
  <2>1. /\ prep # None /\ ~prep.aborted /\ prep' = None /\ token' = FALSE
        /\ state' = IF blocking THEN "needs-login" ELSE "idle"
        /\ UNCHANGED <<imp, blocking, job, loop, cancelling, meta, staged,
                       files, approved, leftover>>
    BY <1>1, <1>9, NoneOfAccount
       DEF PrepareFails, importVars
  <2>2. AccountTypeOK'
    BY <1>1, <2>1 DEF AccountTypeOK, Origins, Metas, States
  <2> QED
    BY <1>1, <2>1, <2>2
       DEF AccountInv, ApplyingIs, CancellingIs, PrepIs, LoopIs, MarkerIs,
           PlanIsStaged, BlockingSurvives, TokenAtRest, Going
<1>10. CASE StartDownload
  <2>1. /\ job # None /\ state \in {"ready", "paused"} /\ token
        /\ blocking => meta' = meta /\ approved' = approved
        /\ ~blocking => meta' = "started" /\ approved' = job.db
        /\ blocking' = TRUE /\ state' = "downloading"
        /\ job' = [job EXCEPT !.missing = {}] /\ loop' = NewDownload
        /\ UNCHANGED <<imp, token, prep, cancelling, staged, files, leftover>>
    BY <1>10 DEF StartDownload
  <2>2. job \in Jobs /\ job.db \in Versions
    BY <1>1, <2>1 DEF AccountTypeOK, Jobs
  <2>3. job' \in Jobs /\ job' # None /\ job'.db = job.db /\ job'.missing = {}
    BY <2>1, <2>2, NoneOfAccount DEF Jobs
  <2>4. AccountTypeOK'
    BY <1>1, <2>1, <2>2, <2>3, NewDownloadIs
       DEF AccountTypeOK, Origins, Metas, States
  <2> QED
    BY <1>1, <2>1, <2>3, <2>4, NewDownloadIs
       DEF AccountInv, ApplyingIs, CancellingIs, PrepIs, LoopIs, MarkerIs,
           PlanIsStaged, BlockingSurvives, TokenAtRest, Going
<1>11. ASSUME NEW a \in Assets, Fetches(a) PROVE AccountInv'
  <2>1. /\ Going /\ a \in loop.todo /\ job # None
        /\ loop' \in Downloads /\ loop' # None /\ loop'.todo = loop.todo \ {a}
        /\ loop'.aborted = FALSE
        /\ job' \in Jobs /\ job' # None /\ job'.db = job.db
        /\ \/ files' = files \cup {a} /\ job'.missing = job.missing
           \/ files' = files /\ job'.missing = job.missing \cup {a}
        /\ UNCHANGED <<imp, blocking, state, token, prep, cancelling, meta,
                       staged, approved, leftover>>
    BY <1>1, <1>11, NoneOfAccount
       DEF Fetches, Going, LoopIs, AccountTypeOK, Jobs, Downloads,
           importVars
  <2>2. AccountTypeOK'
    BY <1>1, <2>1 DEF AccountTypeOK, Origins, Metas, States
  <2> QED
    BY <1>1, <2>1, <2>2
       DEF AccountInv, ApplyingIs, CancellingIs, PrepIs, LoopIs, MarkerIs,
           PlanIsStaged, BlockingSurvives, TokenAtRest, Going
<1>12. CASE DownloadStops
  <2>1. /\ Going /\ loop' = None
        /\ \/ state' = "needs-login" /\ token' = FALSE
           \/ state' = "paused" /\ token' = token
        /\ UNCHANGED <<imp, blocking, job, prep, cancelling, meta, staged,
                       files, approved, leftover>>
    BY <1>1, <1>12, NoneOfAccount
       DEF DownloadStops, importVars
  <2>2. AccountTypeOK'
    BY <1>1, <2>1 DEF AccountTypeOK, Origins, Metas, States
  <2> QED
    BY <1>1, <2>1, <2>2
       DEF AccountInv, ApplyingIs, CancellingIs, PrepIs, LoopIs, MarkerIs,
           PlanIsStaged, BlockingSurvives, TokenAtRest, Going
<1>13. CASE DownloadAborted
  <2>1. /\ loop # None /\ loop.aborted /\ loop' = None
        /\ UNCHANGED <<imp, blocking, state, token, job, prep, cancelling,
                       meta, staged, files, approved, leftover>>
    BY <1>1, <1>13, NoneOfAccount
       DEF DownloadAborted, importVars
  <2>2. AccountTypeOK'
    BY <1>1, <2>1 DEF AccountTypeOK, Origins, Metas, States
  <2> QED
    BY <1>1, <2>1, <2>2
       DEF AccountInv, ApplyingIs, CancellingIs, PrepIs, LoopIs, MarkerIs,
           PlanIsStaged, BlockingSurvives, TokenAtRest, Going
<1>14. CASE DownloadEnds
  <2>1. /\ Going /\ loop.todo = {} /\ loop' = None
        /\ \/ state' = "applying" /\ imp'.src = "account"
           \/ state' = "downloaded" /\ imp' = imp
        /\ UNCHANGED <<blocking, token, job, prep, cancelling, meta, staged,
                       files, approved, leftover>>
    BY <1>1, <1>14, NoneOfAccount
       DEF DownloadEnds, Applies, Applying, NoImport, serverVars
  <2>2. AccountTypeOK'
    BY <1>1, <2>1 DEF AccountTypeOK, Origins, Metas, States
  <2> QED
    BY <1>1, <2>1, <2>2
       DEF AccountInv, ApplyingIs, CancellingIs, PrepIs, LoopIs, MarkerIs,
           PlanIsStaged, BlockingSurvives, TokenAtRest, Going
<1>15. CASE StartApply
  <2>1. /\ job # None /\ state = "downloaded"
        /\ \/ state' = "applying" /\ imp'.src = "account"
           \/ state' = "downloaded" /\ imp' = imp
        /\ UNCHANGED <<blocking, token, job, prep, loop, cancelling, meta,
                       staged, files, approved, leftover>>
    BY <1>1, <1>15, NoneOfAccount
       DEF StartApply, Applies, Applying, NoImport, serverVars
  <2>2. AccountTypeOK'
    BY <1>1, <2>1 DEF AccountTypeOK, Origins, Metas, States
  <2> QED
    BY <1>1, <2>1, <2>2
       DEF AccountInv, ApplyingIs, CancellingIs, PrepIs, LoopIs, MarkerIs,
           PlanIsStaged, BlockingSurvives, TokenAtRest, Going
<1>16. CASE ApplyFailed
  <2>1. /\ imp.src = "account" /\ imp'.src = "none" /\ state' = "downloaded"
        /\ UNCHANGED <<blocking, token, job, prep, loop, cancelling, meta,
                       staged, files, approved, leftover>>
    BY <1>1, <1>16, NoneOfAccount
       DEF ApplyFailed, NoImport
  <2>2. AccountTypeOK'
    BY <1>1, <2>1 DEF AccountTypeOK, Origins, Metas, States
  <2> QED
    BY <1>1, <2>1, <2>2
       DEF AccountInv, ApplyingIs, CancellingIs, PrepIs, LoopIs, MarkerIs,
           PlanIsStaged, BlockingSurvives, TokenAtRest, Going
<1>17. CASE Applied
  <2>1. /\ imp.src = "account" /\ imp'.src = "none" /\ blocking' = FALSE
        /\ token' = FALSE /\ job' = None
        /\ \/ meta' = "none" /\ leftover' = leftover
           \/ meta' = meta /\ leftover' = TRUE
        /\ UNCHANGED <<state, prep, loop, cancelling, staged, files,
                       approved>>
    BY <1>1, <1>17, NoneOfAccount
       DEF Applied, MarkerGone, NoImport
  <2>2. AccountTypeOK'
    BY <1>1, <2>1 DEF AccountTypeOK, Origins, Metas, States
  <2> QED
    BY <1>1, <2>1, <2>2
       DEF AccountInv, ApplyingIs, CancellingIs, PrepIs, LoopIs, MarkerIs,
           PlanIsStaged, BlockingSurvives, TokenAtRest, Going
<1>18. CASE CleansUp
  <2>1. /\ state = "applying" /\ job = None /\ state' = "idle"
        /\ \/ meta' = "none" /\ staged' = NoVersion /\ files' = {}
              /\ leftover' = FALSE
           \/ meta' = meta /\ staged' = staged /\ files' = files
              /\ leftover' = TRUE
        /\ UNCHANGED <<imp, blocking, token, job, prep, loop, cancelling,
                       approved>>
    BY <1>1, <1>18, NoneOfAccount
       DEF CleansUp, StagingGone, importVars
  <2>2. AccountTypeOK'
    BY <1>1, <2>1 DEF AccountTypeOK, Origins, Metas, States
  <2> QED
    BY <1>1, <2>1, <2>2
       DEF AccountInv, ApplyingIs, CancellingIs, PrepIs, LoopIs, MarkerIs,
           PlanIsStaged, BlockingSurvives, TokenAtRest, Going
<1>19. CASE Cancel
  <2>1. /\ state # "applying" /\ ~cancelling
        /\ meta' = "none" /\ blocking' = FALSE /\ job' = None
        /\ token' = FALSE /\ state' = "idle" /\ cancelling' = TRUE
        /\ prep = None => prep' = None
        /\ prep # None => prep' \in Preps /\ prep' # None
                         /\ prep'.aborted = TRUE /\ prep'.pc = prep.pc
                         /\ prep'.meta = prep.meta
        /\ loop = None => loop' = None
        /\ loop # None => loop' \in Downloads /\ loop' # None
                         /\ loop'.aborted = TRUE
        /\ UNCHANGED <<imp, staged, files, approved, leftover>>
    BY <1>1, <1>19, NoneOfAccount
       DEF Cancel, AccountTypeOK, Preps, Downloads
  <2>2. AccountTypeOK'
    BY <1>1, <2>1 DEF AccountTypeOK, Origins, Metas, States
  <2> QED
    BY <1>1, <2>1, <2>2
       DEF AccountInv, ApplyingIs, CancellingIs, PrepIs, LoopIs, MarkerIs,
           PlanIsStaged, BlockingSurvives, TokenAtRest, Going
<1>20. CASE CancelEnds
  <2>1. /\ cancelling /\ prep = None /\ loop = None /\ cancelling' = FALSE
        /\ \/ meta' = "none" /\ staged' = NoVersion /\ files' = {}
              /\ leftover' = FALSE
           \/ meta' = meta /\ staged' = staged /\ files' = files
              /\ leftover' = TRUE
        /\ UNCHANGED <<imp, blocking, state, token, job, prep, loop,
                       approved>>
    BY <1>1, <1>20, NoneOfAccount
       DEF CancelEnds, StagingGone, importVars
  <2>2. AccountTypeOK'
    BY <1>1, <2>1 DEF AccountTypeOK, Origins, Metas, States
  <2> QED
    BY <1>1, <2>1, <2>2
       DEF AccountInv, ApplyingIs, CancellingIs, PrepIs, LoopIs, MarkerIs,
           PlanIsStaged, BlockingSurvives, TokenAtRest, Going
<1>21. CASE Restart
  <2>1. /\ imp'.src = "none" /\ token' = FALSE /\ job' = None /\ prep' = None
        /\ loop' = None /\ cancelling' = FALSE
        /\ blocking' = (meta = "started")
        /\ state' = IF meta = "started" THEN "needs-login" ELSE "idle"
        /\ meta = "prepared" => meta' = "none" /\ staged' = NoVersion
                              /\ files' = {}
        /\ meta # "prepared" => meta' = meta /\ staged' = staged
                              /\ files' = files
        /\ UNCHANGED <<approved, leftover>>
    BY <1>1, <1>21, NoneOfAccount
       DEF Restart, Restarts, NoImport
  <2>2. AccountTypeOK'
    BY <1>1, <2>1 DEF AccountTypeOK, Origins, Metas, States
  <2> QED
    BY <1>1, <2>1, <2>2
       DEF AccountInv, ApplyingIs, CancellingIs, PrepIs, LoopIs, MarkerIs,
           PlanIsStaged, BlockingSurvives, TokenAtRest, Going
<1>22. CASE UNCHANGED vars
  <2>1. /\ UNCHANGED <<imp, blocking, state, token, job, prep, loop,
                       cancelling, meta, staged, files, approved, leftover>>
    BY <1>1, <1>22, NoneOfAccount
       DEF vars, importVars
  <2>2. AccountTypeOK'
    BY <1>1, <2>1 DEF AccountTypeOK, Origins, Metas, States
  <2> QED
    BY <1>1, <2>1, <2>2
       DEF AccountInv, ApplyingIs, CancellingIs, PrepIs, LoopIs, MarkerIs,
           PlanIsStaged, BlockingSurvives, TokenAtRest, Going
<1> QED
  BY <1>2, <1>3, <1>4, <1>5, <1>6, <1>7, <1>8, <1>9, <1>10, <1>11,
     <1>12, <1>13, <1>14, <1>15, <1>16, <1>17, <1>18, <1>19, <1>20, <1>21,
     <1>22
     DEF Next, Working

LEMMA ConfirmStep ==
  ASSUME Inv, [Next]_vars
  PROVE  ConfirmInv'
<1> USE DEF rows, memory, ghosts, stagingVars, accountVars, serverVars
<1>1. /\ AccountTypeOK /\ ApplyingIs /\ CancellingIs /\ PrepIs /\ LoopIs
      /\ MarkerIs /\ PlanIsStaged /\ BlockingSurvives
      /\ ConfirmedIs /\ ImportIs /\ imp \in Imports
  BY DEF Inv, AccountInv, ConfirmInv, IInv, KeepsInv, ImportTypeOK
<1>2. AccountInv'
  BY AccountStep
\* What leaves alone what the marker and the confirmation say.
<1>3. ASSUME UNCHANGED <<meta, staged, approved, leftover, cancelling>>,
             blocking' = blocking \/ blocking' = FALSE,
             \/ prep' = prep \/ prep' = None
             \/ /\ prep # None /\ prep'.pc = prep.pc /\ prep'.meta = prep.meta
      PROVE  ConfirmedIs'
  BY <1>1, <1>3 DEF ConfirmedIs
<1>4. ASSUME UNCHANGED <<imp, staged>>,
             job' = job \/ (job # None /\ job.missing \subseteq job'.missing)
      PROVE  ImportIs'
  BY <1>1, <1>4 DEF ImportIs
<1>5. ASSUME imp.src # "account", UNCHANGED imp PROVE ImportIs'
  BY <1>5 DEF ImportIs
<1>6. ASSUME imp'.src = "none" PROVE ImportIs'
  BY <1>6 DEF ImportIs
<1>7. NoImport.src = "none"
  BY DEF NoImport
<1>8. CASE ImportNext /\ UNCHANGED accountVars
  <2>1. /\ blocking' = blocking
        /\ imp'.src = "account" =>
             imp.src = "account" /\ imp'.by = imp.by /\ imp'.plan = imp.plan
    <3>1. CASE UploadStarts
      BY <3>1 DEF UploadStarts, NoImport
    <3>2. CASE UploadEnds
      BY <1>7, <3>2 DEF UploadEnds
    <3>3. CASE QueueSteps \/ TimerFires \/ \E r \in Requests : Arrives(r)
      BY <3>3
         DEF QueueSteps, Arrives, ColdLoad, RunAsset, RunPatch, RunPost, RunRead,
             LoadEnds, TimerFires
    <3>4. CASE Drained \/ Begins \/ (\E a \in Assets : Streams(a)) \/ StreamEnds
               \/ Commits \/ Swaps \/ DecodeEnds \/ Fails \/ SwapFails \/ NoRoom
      BY <1>1, <3>4
         DEF Drained, Begins, Streams, StreamEnds, Commits, Swaps, DecodeEnds,
             Fails, SwapFails, NoRoom, Imports
    <3> QED BY <1>8, <3>1, <3>2, <3>3, <3>4 DEF ImportNext, ImportSteps
  <2> QED BY <1>1, <1>8, <2>1 DEF ConfirmInv, ConfirmedIs, ImportIs
<1>9. CASE Prepare
  <2>1. /\ ~cancelling /\ state # "applying" /\ prep'.pc = "read"
        /\ UNCHANGED <<imp, blocking, cancelling, meta, staged, approved, leftover>>
    BY <1>9 DEF Prepare, Busy, importVars
  <2> QED BY <1>1, <1>5, <2>1 DEF ConfirmInv, ConfirmedIs, ApplyingIs
<1>10. ASSUME NEW v \in Versions, PrepareReads(v) PROVE ConfirmInv'
  <2>1. /\ prep # None /\ prep.pc = "read" /\ prep'.pc = "stage"
        /\ UNCHANGED <<imp, blocking, cancelling, meta, staged, approved,
                       leftover, job>>
    BY <1>1, <1>10 DEF PrepareReads, importVars, AccountTypeOK, Preps
  <2> QED BY <1>1, <1>4, <2>1 DEF ConfirmInv, ConfirmedIs
<1>11. CASE PrepareStages
  <2>1. /\ prep # None /\ prep.pc = "stage" /\ prep'.pc = "meta"
        /\ prep'.meta = IF blocking THEN "started" ELSE "prepared"
        /\ blocking => staged' = staged /\ meta' = meta
        /\ meta' \in {meta, "none"}
        /\ UNCHANGED <<imp, blocking, cancelling, approved, leftover>>
    BY <1>1, <1>11, NoneOfAccount
       DEF PrepareStages, AccountTypeOK, Preps, importVars
  <2>2. imp.src # "account"
    BY <1>1, <2>1 DEF ApplyingIs, PrepIs
  <2>3. ~blocking /\ ~leftover => meta # "started"
    BY <1>1, <2>1 DEF MarkerIs, ConfirmedIs, PrepIs, CancellingIs
  <2>4. ConfirmedIs'
    BY <1>1, <2>1, <2>3 DEF ConfirmedIs
  <2> QED BY <1>5, <2>1, <2>2, <2>4 DEF ConfirmInv
<1>12. CASE MetaLands
  <2>1. /\ prep # None /\ prep.pc = "meta" /\ meta' = prep.meta
        /\ prep'.pc = "end"
        /\ UNCHANGED <<imp, blocking, cancelling, staged, approved, leftover,
                       job>>
    BY <1>1, <1>12 DEF MetaLands, AccountTypeOK, Preps, importVars
  <2> QED BY <1>1, <1>4, <2>1 DEF ConfirmInv, ConfirmedIs
<1>13. CASE PrepareEnds \/ PrepareFails \/ PrepareStops
  <2>1. /\ prep # None /\ prep' = None
        /\ UNCHANGED <<imp, blocking, cancelling, meta, staged, approved, leftover>>
    BY <1>13 DEF PrepareEnds, PrepareFails, PrepareStops, stagingVars, importVars
  <2>2. imp.src # "account"
    BY <1>1, <2>1 DEF ApplyingIs, PrepIs
  <2> QED BY <1>3, <1>5, <2>1, <2>2 DEF ConfirmInv
\* The confirmation: what is confirmed is what is staged.
<1>14. CASE StartDownload
  <2>1. /\ job # None /\ state \in {"ready", "paused"}
        /\ blocking => meta' = meta /\ approved' = approved
        /\ ~blocking => approved' = job.db
        /\ UNCHANGED <<imp, prep, cancelling, staged, leftover>>
    BY <1>14 DEF StartDownload
  <2>2. staged = job.db /\ prep = None /\ imp.src # "account"
    BY <1>1, <2>1 DEF PlanIsStaged, PrepIs, ApplyingIs
  <2>3. ConfirmedIs'
    BY <1>1, <2>1, <2>2 DEF ConfirmedIs
  <2> QED BY <1>5, <2>1, <2>2, <2>3 DEF ConfirmInv
<1>15. ASSUME NEW a \in Assets, Fetches(a) PROVE ConfirmInv'
  <2>1. UNCHANGED <<imp, blocking, prep, cancelling, meta, staged, approved, leftover>>
    BY <1>15 DEF Fetches, importVars
  <2>2. imp.src # "account"
    BY <1>1, <1>15 DEF Fetches, LoopIs, ApplyingIs
  <2> QED BY <1>3, <1>5, <2>1, <2>2 DEF ConfirmInv
<1>16. CASE DownloadStops \/ DownloadAborted
  <2>1. UNCHANGED <<imp, blocking, job, prep, cancelling, meta, staged, approved, leftover>>
    BY <1>16 DEF DownloadStops, DownloadAborted, importVars
  <2> QED BY <1>3, <1>4, <2>1 DEF ConfirmInv
\* The apply takes the staged database and the files that are not missing.
<1>17. CASE DownloadEnds \/ StartApply
  <2>1. /\ UNCHANGED <<blocking, job, prep, cancelling, meta, staged, approved, leftover>>
        /\ Applies \/ imp' = imp
    BY <1>17 DEF DownloadEnds, StartApply
  <2>2. CASE imp' = imp
    BY <1>3, <1>4, <2>1, <2>2 DEF ConfirmInv
  <2>3. CASE Applying
    <3>1. imp'.by = staged /\ imp'.plan = NewAssets \ job.missing
      BY <2>3 DEF Applying, NoImport
    <3> QED BY <1>3, <2>1, <3>1 DEF ConfirmInv, ImportIs
  <2> QED BY <2>1, <2>2, <2>3 DEF Applies
<1>18. CASE ApplyFailed
  <2>1. /\ imp'.src = "none"
        /\ UNCHANGED <<blocking, prep, cancelling, meta, staged, approved, leftover>>
    BY <1>7, <1>18 DEF ApplyFailed
  <2> QED BY <1>3, <1>6, <2>1 DEF ConfirmInv
<1>19. CASE Applied
  <2>1. /\ imp'.src = "none" /\ blocking' = FALSE
        /\ \/ meta' = "none" /\ leftover' = leftover
           \/ leftover' = TRUE
        /\ UNCHANGED <<prep, cancelling, staged, approved>>
    BY <1>7, <1>19 DEF Applied, MarkerGone
  <2>2. prep = None \/ prep.aborted
    BY <1>1, <1>19 DEF Applied, PrepIs, ApplyingIs
  <2>3. imp.src = "account" /\ ~cancelling
    BY <1>1, <1>19 DEF Applied, ApplyingIs, CancellingIs
  <2>4. prep = None
    BY <1>1, <2>2, <2>3 DEF CancellingIs
  <2> QED BY <1>6, <2>1, <2>3, <2>4 DEF ConfirmInv, ConfirmedIs
<1>20. CASE CleansUp \/ CancelEnds
  <2>1. /\ StagingGone /\ UNCHANGED <<imp, blocking, job, prep, approved>>
        /\ job = None /\ ~blocking /\ cancelling' \in {cancelling, FALSE}
    BY <1>1, <1>20 DEF CleansUp, CancelEnds, importVars, ApplyingIs, CancellingIs
  <2>2. prep = None /\ imp.src # "account"
    BY <1>1, <1>20 DEF CleansUp, CancelEnds, PrepIs, CancellingIs, ApplyingIs
  <2> QED BY <1>5, <2>1, <2>2 DEF StagingGone, ConfirmInv, ConfirmedIs
<1>21. CASE Cancel
  <2>1. /\ state # "applying" /\ meta' = "none" /\ blocking' = FALSE
        /\ prep' = IF prep = None THEN None ELSE [prep EXCEPT !.aborted = TRUE]
        /\ UNCHANGED <<imp, staged, approved, leftover>>
    BY <1>21 DEF Cancel
  <2>2. prep # None => prep'.pc = prep.pc /\ prep'.meta = prep.meta
    BY <1>1, <2>1 DEF AccountTypeOK, Preps
  <2>3. imp.src # "account"
    BY <1>1, <2>1 DEF ApplyingIs
  <2>4. ConfirmedIs'
    <3>1. prep # None /\ prep.pc = "meta" /\ prep.meta = "started" => blocking \/ cancelling
      BY <1>1 DEF PrepIs
    <3> QED BY <1>1, <2>1, <2>2, <3>1 DEF ConfirmedIs
  <2> QED BY <1>5, <2>1, <2>3, <2>4 DEF ConfirmInv
<1>22. CASE Restart
  <2>1. /\ imp'.src = "none" /\ prep' = None /\ cancelling' = FALSE
        /\ blocking' = (meta = "started")
        /\ meta = "prepared" => meta' = "none"
        /\ meta # "prepared" => meta' = meta /\ staged' = staged
        /\ UNCHANGED <<approved, leftover>>
    BY <1>7, <1>22 DEF Restart, Restarts
  <2> QED BY <1>1, <1>6, <2>1 DEF ConfirmInv, ConfirmedIs
<1>23. CASE UNCHANGED vars
  <2>1. UNCHANGED <<imp, blocking, job, prep, cancelling, meta, staged, approved, leftover>>
    BY <1>23 DEF vars, importVars
  <2> QED BY <1>3, <1>4, <2>1 DEF ConfirmInv
<1> QED
  BY <1>8, <1>9, <1>10, <1>11, <1>12, <1>13, <1>14, <1>15, <1>16, <1>17, <1>18,
     <1>19, <1>20, <1>21, <1>22, <1>23
     DEF Next, Working

LEMMA AccountInit == Init => Inv
<1> SUFFICES ASSUME Init PROVE Inv
  OBVIOUS
<1>1. IInv
  BY KeepsInit, GenInit, SealInit DEF Init, IInv
<1>2. imp.src = "none" /\ ~blocking
  BY DEF Init, ImportInit, NoImport
<1>3. AccountTypeOK
  BY DEF Init, AccountTypeOK, States, Metas, Origins
<1>4. /\ ApplyingIs /\ CancellingIs /\ PrepIs /\ LoopIs /\ MarkerIs
      /\ PlanIsStaged /\ BlockingSurvives /\ TokenAtRest
  BY <1>2
     DEF Init, ApplyingIs, CancellingIs, PrepIs, LoopIs, MarkerIs, PlanIsStaged,
         BlockingSurvives, TokenAtRest, Going
<1>5. ReplaceInv
  BY ReplaceInit DEF Init
<1>6. ConfirmInv
  BY <1>2 DEF Init, ConfirmInv, ConfirmedIs, ImportIs
<1> QED BY <1>1, <1>3, <1>4, <1>5, <1>6 DEF Inv, AccountInv

LEMMA AccountInductive == Spec => []Inv
<1>1. Inv /\ [Next]_vars => Inv'
  BY StepIsImport, AccountStep, ConfirmStep, ReplaceStep, KeepsStep, GenStep,
     SealStep
     DEF Inv, IInv
<1> QED BY <1>1, AccountInit, PTL DEF Spec

---------------------------------------------------------------------------
(* The theorems.                                                           *)

\* Every variable has its type: between two of its steps the import of an
\* account is in one of the states described.
THEOREM AccountTypeCorrect == Spec => []TypeOK
<1>1. Inv => TypeOK
  BY DEF Inv, IInv, KeepsInv, AccountInv, TypeOK
<1> QED BY <1>1, AccountInductive, PTL

\* risu-account-import.cjs is an import as server.cjs runs them: each of its
\* steps starts one, refuses writes, ends one, or is of no concern to it.
THEOREM AccountImplementsImport == Spec => ImplementsDataImport
<1>1. Init => ImportInit
  BY DEF Init
<1>2. Inv /\ [Next]_vars
        => [ImportNext \/ AccountSteps \/ RestartsBlocking]_importVars
  BY StepIsImport DEF ImportActions
<1> QED
  BY <1>1, <1>2, AccountInductive, PTL DEF Spec, ImplementsDataImport, ImportSpec

\* While writes are refused a restart would refuse them too: the marker is on
\* disk from before the first refusal to the last.
THEOREM RefusalSurvives == Spec => []BlockingSurvives
<1>1. Inv => BlockingSurvives
  BY DEF Inv, AccountInv
<1> QED BY <1>1, AccountInductive, PTL

\* The plan a user confirms is the staged database, with the files staged that
\* it is applied with; no cleanup of an import before takes them.
THEOREM PlanStaysStaged == Spec => []PlanIsStaged
<1>1. Inv => PlanIsStaged
  BY DEF Inv, AccountInv
<1> QED BY <1>1, AccountInductive, PTL

\* The login is dropped with the state that used it.
THEOREM LoginDropped == Spec => []TokenAtRest
<1>1. Inv => TokenAtRest
  BY DEF Inv, AccountInv
<1> QED BY <1>1, AccountInductive, PTL

\* A restart starts to refuse writes only where the removal of an ended
\* import's marker was not finished.
THEOREM NoNewRefusal == Spec => RestartUnblocks
<1>1. Inv /\ [Next]_vars
        => [Restart => (blocking' => blocking \/ cancelling \/ state = "applying"
                                       \/ leftover)]_vars
  BY DEF Inv, AccountInv, MarkerIs, Restart
<1> QED BY <1>1, AccountInductive, PTL DEF Spec, RestartUnblocks

\* A restart refuses writes exactly when they were refused.
THEOREM RefusalFollowsMarker == Spec => RefusalOutlivesRestart
  BY RefusalSurvives, NoNewRefusal DEF RefusalOutlivesRestart

\* An account's database replaces the data only while writes are refused, it
\* is the one the user confirmed, and every file that was not found missing is
\* there with it; also after a restart between the two.
THEOREM OnlyTheConfirmed == Spec => ReplacesAsConfirmed
<1> DEFINE Replaces ==
      disk'.db.gen > disk.db.gen /\ disk'.db.by # NoVersion /\ ~leftover =>
         /\ blocking /\ disk'.db.by = approved
         /\ NewAssets \ disk'.assets \subseteq job.missing
<1>1. ASSUME Inv, [Next]_vars, disk'.db.gen > disk.db.gen,
             disk'.db.by # NoVersion, ~leftover
      PROVE  /\ blocking /\ disk'.db.by = approved
             /\ NewAssets \ disk'.assets \subseteq job.missing
  <2>1. KeepsInv /\ SealInv /\ ReplaceInv /\ ConfirmInv /\ ImportTypeOK
    BY <1>1 DEF Inv, IInv, KeepsInv
  <2>2. disk'.db.by = imp.by /\ imp.plan \subseteq disk'.assets
    BY <1>1, <2>1, StepIsImport, RaiseStep
  <2>3. imp.by \in Versions
    BY <1>1, <2>1, <2>2 DEF ImportTypeOK, Imports, Origins
  <2>4. imp.src = "account"
    BY <2>1, <2>3 DEF SealInv
  <2>5. blocking
    BY <2>1, <2>4 DEF KeepsInv, AccountIsQuiet
  <2> QED
    BY <1>1, <2>1, <2>2, <2>4, <2>5 DEF ConfirmInv, ConfirmedIs, ImportIs
<1>2. Inv /\ [Next]_vars => [Replaces]_vars
  BY <1>1
<1> QED BY <1>2, AccountInductive, PTL DEF Spec, ReplacesAsConfirmed
=============================================================================

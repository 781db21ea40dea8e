------------------------------ MODULE DataImport ------------------------------
(***************************************************************************)
(* How the server replaces all data with those of a backup or of a RisuAI  *)
(* account (importBackupFromSource of server.cjs), while the storage queue *)
(* goes on answering pages.  The import streams entries into a transaction *)
(* of the one SQLite connection every handler writes through, commits it   *)
(* in batches, replaces the database with the last one, and takes what     *)
(* memory held of the old one away.                                        *)
(*                                                                         *)
(* A database is the one it descends from, the assets it refers to and the *)
(* chat bodies posted into it.  How memory gets to disk otherwise is the   *)
(* subject of DbPersist: here a write never fails and the timer's callback *)
(* is one step.  Of the import of an account this module says only when it *)
(* refuses writes and replaces data; AccountImport has the rest.           *)
(***************************************************************************)
EXTENDS Naturals, FiniteSets

CONSTANTS
    Assets,      \* assets, by content
    OldAssets,   \* what the first database refers to
    NewAssets,   \* what an imported database refers to
    Chats,       \* chats that pages post, by id
    Versions,    \* databases an account may hold
    NoVersion,   \* no database: nothing staged, an upload's
    MaxImports,  \* model bound: databases imported
    MaxFaults,   \* model bound: failures and restarts
    None         \* nothing there: no transaction, request, load, cache

ASSUME ImportAssumption ==
    /\ OldAssets \subseteq Assets /\ NewAssets \subseteq Assets
    /\ NoVersion \notin Versions
    /\ MaxImports \in Nat /\ MaxFaults \in Nat

VARIABLES
    disk,     \* what is committed: the database and the asset rows
    tx,       \* the same as the connection sees it in a transaction
    cache,    \* dbCache: the database without chat bodies
    store,    \* fullChatStore: the chat bodies
    timer,    \* memory is ahead of what was written
    queued,   \* the request at the head of the storage queue
    load,     \* its decode of the database, while it yields
    imp,      \* the import
    page,     \* the page that writes
    blocking, \* a started account import refuses writes
    acked,    \* what pages were told is saved in this database (ghost)
    forgot,   \* a restart forgot a page of an older database (ghost)
    late,     \* a load that began before a commit ended after it (ghost)
    faults

rows == <<disk, tx>>
memory == <<cache, store, timer>>
ghosts == <<acked, forgot, late>>
importVars == <<disk, tx, cache, store, timer, queued, load, imp, page,
                blocking, acked, forgot, late, faults>>

Gens == 0..MaxImports
Posts == [gen: Gens, chat: Chats]
Origins == Versions \cup {NoVersion}

Databases == [gen: Gens, by: Origins, raw: BOOLEAN,
              refs: SUBSET Assets, chats: SUBSET Posts]
Views == [gen: Gens, by: Origins, refs: SUBSET Assets]
Rows == [db: Databases, assets: SUBSET Assets]

Requests == [kind: {"asset", "patch"}, what: Assets]
            \cup [kind: {"post"}, what: Chats]
            \cup [kind: {"read"}, what: {None}]
Loads == [cached: BOOLEAN, db: Databases]

Sources == {"none", "upload", "account"}
Stages == {"idle", "drain", "begin", "stream", "check", "swap", "decode",
           "done", "failed", "full"}
Imports == [pc: Stages, src: Sources, by: Origins, plan: SUBSET Assets,
            brought: SUBSET Assets, created: SUBSET Assets,
            raw: Databases \cup {None}]

Pages == [base: Views, has: SUBSET Assets, revoked: BOOLEAN]

ImportTypeOK ==
    /\ disk \in Rows /\ tx \in Rows \cup {None}
    /\ cache \in Views \cup {None}
    /\ store \in (SUBSET Posts) \cup {None}
    /\ timer \in BOOLEAN
    /\ queued \in Requests \cup {None}
    /\ load \in Loads \cup {None}
    /\ imp \in Imports /\ page \in Pages
    /\ blocking \in BOOLEAN
    /\ acked \in [refs: SUBSET Assets, chats: SUBSET Posts,
                  assets: SUBSET Assets]
    /\ forgot \in BOOLEAN /\ late \in BOOLEAN
    /\ faults \in 0..MaxFaults

ASSUME NoneAssumption ==
    /\ None \notin Rows /\ None \notin Views
    /\ \A posts \in SUBSET Posts : posts # None
    /\ None \notin Requests /\ None \notin Loads /\ None \notin Databases

NoImport == [pc |-> "idle", src |-> "none", by |-> NoVersion, plan |-> {},
             brought |-> {}, created |-> {}, raw |-> None]

ViewOf(d) == [gen |-> d.gen, by |-> d.by, refs |-> d.refs]

FirstDb == [gen |-> 0, by |-> NoVersion, raw |-> FALSE, refs |-> OldAssets,
            chats |-> {}]

ImportInit ==
    /\ disk = [db |-> FirstDb, assets |-> OldAssets] /\ tx = None
    /\ cache = None /\ store = None /\ timer = FALSE
    /\ queued = None /\ load = None
    /\ imp = NoImport
    /\ page = [base |-> ViewOf(FirstDb), has |-> {}, revoked |-> FALSE]
    /\ blocking = FALSE
    /\ acked = [refs |-> OldAssets, chats |-> {}, assets |-> OldAssets]
    /\ forgot = FALSE /\ late = FALSE
    /\ faults = 0

Fault == faults < MaxFaults /\ faults' = faults + 1

\* Every statement goes through the one connection, in its transaction.
Conn == IF tx = None THEN disk ELSE tx
Put(r) == IF tx = None THEN disk' = r /\ tx' = tx ELSE tx' = r /\ disk' = disk

---------------------------------------------------------------------------
(* Pages and the storage queue.                                            *)

Admitted == ~blocking /\ ~page.revoked

Arrives(r) ==
    /\ queued = None
    /\ r.kind # "read" => Admitted
    /\ r.kind = "patch" => r.what \in page.has \ page.base.refs
    /\ r.kind = "asset" => r.what \notin page.has
    /\ queued' = r
    /\ UNCHANGED <<rows, memory, load, imp, page, blocking, ghosts, faults>>

\* What memory holds is written: the cached database with the bodies of the
\* store, or the bodies alone over the database on disk.
Persisted(r) ==
    [r EXCEPT !.db =
        IF cache # None
        THEN [gen |-> cache.gen, by |-> cache.by, raw |-> FALSE,
              refs |-> cache.refs,
              chats |-> IF store = None THEN r.db.chats ELSE store]
        ELSE IF store # None
             THEN [r.db EXCEPT !.raw = FALSE, !.chats = @ \cup store]
             ELSE r.db]

Flushed == IF timer THEN Persisted(Conn) ELSE Conn

\* A decoded database becomes the store, and the cache if that is wanted; the
\* first decode of an imported one may write it back in the server's format.
Decoded(r, d, cached) ==
    /\ cache' = IF cached THEN ViewOf(d) ELSE cache
    /\ store' = d.chats
    /\ \/ Put(r)
       \/ d.raw /\ Put([r EXCEPT !.db = [d EXCEPT !.raw = FALSE]])

Wanting == queued # None /\ load = None
NeedsCache == queued.kind \in {"read", "patch"} /\ cache = None
NeedsStore == queued.kind = "post" /\ store = None

\* Mutated LoadsFor: not used by the specification.
LoadsUnflushed(cached) ==
    /\ timer' = (timer /\ ~cached)
    /\ IF Conn.db.raw
       THEN /\ load' = [cached |-> cached, db |-> Conn.db]
            /\ UNCHANGED <<rows, cache, store>>
       ELSE Decoded(Conn, Conn.db, cached) /\ UNCHANGED load

\* A cold load flushes first; the decode of the server's own format does not
\* yield, that of an imported database does.
LoadsFor(cached) ==
    LET r == IF cached THEN Flushed ELSE Conn
    IN  /\ timer' = (timer /\ ~cached)
        /\ IF r.db.raw
           THEN /\ Put(r) /\ load' = [cached |-> cached, db |-> r.db]
                /\ UNCHANGED <<cache, store>>
           ELSE Decoded(r, r.db, cached) /\ UNCHANGED load

ColdLoad ==
    /\ Wanting
    /\ NeedsCache \/ NeedsStore
    /\ LoadsFor(NeedsCache)
    /\ UNCHANGED <<queued, imp, page, blocking, ghosts, faults>>

LoadEnds ==
    /\ load # None
    /\ Decoded(Conn, load.db, load.cached)
    /\ late' = (late \/ load.db.gen < disk.db.gen)
    /\ load' = None
    /\ UNCHANGED <<timer, queued, imp, page, blocking, acked, forgot, faults>>

\* What is saved while an upload runs may go with it, the pages are told
\* nothing of that: it is left out.
Counts == imp.src # "upload"

RunAsset ==
    /\ Wanting /\ queued.kind = "asset"
    /\ Put([Conn EXCEPT !.assets = @ \cup {queued.what}])
    /\ page' = [page EXCEPT !.has = @ \cup {queued.what}]
    /\ acked' = IF Counts THEN [acked EXCEPT !.assets = @ \cup {queued.what}]
                          ELSE acked
    /\ queued' = None
    /\ UNCHANGED <<memory, load, imp, blocking, forgot, late, faults>>

\* A patch is taken only by the very database it was made from.
RunPatch ==
    /\ Wanting /\ queued.kind = "patch" /\ cache # None
    /\ IF page.base = cache
       THEN /\ cache' = [cache EXCEPT !.refs = @ \cup {queued.what}]
            /\ page' = [page EXCEPT !.base = cache']
            /\ timer' = TRUE
            /\ acked' = IF Counts
                        THEN [acked EXCEPT !.refs =
                                @ \cup ({queued.what} \cap acked.assets)]
                        ELSE acked
       ELSE UNCHANGED <<cache, page, timer, acked>>
    /\ queued' = None
    /\ UNCHANGED <<rows, store, load, imp, blocking, forgot, late, faults>>

\* A chat body is taken as it comes.
RunPost ==
    /\ Wanting /\ queued.kind = "post" /\ store # None
    /\ LET post == [gen |-> page.base.gen, chat |-> queued.what]
       IN  /\ store' = store \cup {post}
           /\ acked' = IF Counts /\ post.gen = disk.db.gen
                       THEN [acked EXCEPT !.chats = @ \cup {post}] ELSE acked
    /\ timer' = TRUE
    /\ queued' = None
    /\ UNCHANGED <<rows, cache, load, imp, page, blocking, forgot, late, faults>>

\* A page loads, and is no longer one of those that were revoked.
RunRead ==
    /\ Wanting /\ queued.kind = "read" /\ cache # None
    /\ page' = [base |-> cache, has |-> {}, revoked |-> FALSE]
    /\ queued' = None
    /\ UNCHANGED <<rows, memory, load, imp, blocking, ghosts, faults>>

TimerFires ==
    /\ timer /\ load = None
    /\ Put(Persisted(Conn))
    /\ timer' = FALSE
    /\ UNCHANGED <<cache, store, queued, load, imp, page, blocking, ghosts,
                   faults>>

---------------------------------------------------------------------------
(* The import.  An upload starts at once; the import of an account first   *)
(* lets the queue run out.                                                 *)

UploadStarts ==
    /\ imp = NoImport /\ Admitted
    /\ disk.db.gen < MaxImports
    /\ imp' = [NoImport EXCEPT !.pc = "begin", !.src = "upload",
                               !.plan = NewAssets]
    /\ UNCHANGED <<rows, memory, queued, load, page, blocking, ghosts, faults>>

\* Mutated Drained: not used by the specification.
DrainedAtOnce ==
    /\ imp.pc = "drain"
    /\ imp' = [imp EXCEPT !.pc = "begin"]
    /\ UNCHANGED <<rows, memory, queued, load, page, blocking, ghosts, faults>>

Drained ==
    /\ imp.pc = "drain" /\ queued = None
    /\ imp' = [imp EXCEPT !.pc = "begin"]
    /\ UNCHANGED <<rows, memory, queued, load, page, blocking, ghosts, faults>>

\* Then the disk must have room; without it no page is revoked.
NoRoom ==
    /\ imp.pc = "drain" /\ queued = None
    /\ Fault
    /\ imp' = [imp EXCEPT !.pc = "full"]
    /\ UNCHANGED <<rows, memory, queued, load, page, blocking, ghosts>>

Begins ==
    /\ imp.pc = "begin"
    /\ disk' = Flushed /\ tx' = Flushed
    /\ timer' = FALSE
    /\ imp' = [imp EXCEPT !.pc = "stream"]
    /\ UNCHANGED <<cache, store, queued, load, page, blocking, ghosts, faults>>

\* An entry overwrites the row of its name, and a full batch is committed.
Streams(a) ==
    /\ imp.pc = "stream" /\ a \in imp.plan \ imp.brought
    /\ tx' = [tx EXCEPT !.assets = @ \cup {a}]
    /\ disk' \in {disk, tx'}
    /\ imp' = [imp EXCEPT !.brought = @ \cup {a},
                          !.created = @ \cup ({a} \ tx.assets)]
    /\ UNCHANGED <<memory, queued, load, page, blocking, ghosts, faults>>

\* Mutated StreamEnds: not used by the specification.
StreamCutOff ==
    /\ imp.pc = "stream"
    /\ imp' = [imp EXCEPT !.pc = "check"]
    /\ UNCHANGED <<rows, memory, queued, load, page, blocking, ghosts, faults>>

StreamEnds ==
    /\ imp.pc = "stream" /\ imp.brought = imp.plan
    /\ imp' = [imp EXCEPT !.pc = "check"]
    /\ UNCHANGED <<rows, memory, queued, load, page, blocking, ghosts, faults>>

Imported ==
    [gen |-> disk.db.gen + 1, by |-> imp.by, raw |-> TRUE,
     refs |-> NewAssets, chats |-> {}]

\* Mutated Commits: not used by the specification.
CommitsKeepingMemory ==
    /\ imp.pc = "check" /\ disk.db.gen < MaxImports
    /\ disk' = [db |-> Imported, assets |-> imp.brought] /\ tx' = None
    /\ acked' = [refs |-> NewAssets, chats |-> {}, assets |-> imp.brought]
    /\ imp' = [imp EXCEPT !.pc = "swap"]
    /\ UNCHANGED <<memory, queued, load, page, blocking, forgot, late, faults>>

\* The database is written, rows the import did not bring are deleted, the
\* transaction is committed, and memory forgets the old database.
Commits ==
    /\ imp.pc = "check" /\ disk.db.gen < MaxImports
    /\ disk' = [db |-> Imported, assets |-> imp.brought] /\ tx' = None
    /\ cache' = None /\ store' = None /\ timer' = FALSE
    /\ acked' = [refs |-> NewAssets, chats |-> {}, assets |-> imp.brought]
    /\ imp' = [imp EXCEPT !.pc = "swap"]
    /\ UNCHANGED <<queued, load, page, blocking, forgot, late, faults>>

\* After the commit the inlay folders are swapped; then the new database is
\* decoded, outside the queue.
Swaps ==
    /\ imp.pc = "swap"
    /\ imp' = [imp EXCEPT !.pc = "decode", !.raw = Conn.db]
    /\ UNCHANGED <<rows, memory, queued, load, page, blocking, ghosts, faults>>

DecodeEnds ==
    /\ imp.pc = "decode"
    /\ Decoded(Conn, imp.raw, FALSE)
    /\ imp' = [imp EXCEPT !.pc = "done"]
    /\ UNCHANGED <<timer, queued, load, page, blocking, ghosts, faults>>

\* Mutated Fails: not used by the specification.
FailsTakingAllBack ==
    /\ imp.pc \in {"begin", "stream", "check"}
    /\ Fault
    /\ disk' = [disk EXCEPT !.assets = @ \ imp.brought] /\ tx' = None
    /\ imp' = [imp EXCEPT !.pc = "failed"]
    /\ UNCHANGED <<memory, queued, load, page, blocking, ghosts>>

\* Until the commit a failure rolls back and takes back the rows that
\* earlier batches added.
Fails ==
    /\ imp.pc \in {"begin", "stream", "check"}
    /\ Fault
    /\ disk' = [disk EXCEPT !.assets = @ \ imp.created] /\ tx' = None
    /\ imp' = [imp EXCEPT !.pc = "failed"]
    /\ UNCHANGED <<memory, queued, load, page, blocking, ghosts>>

\* The folders cannot be swapped or the database not be decoded: it stays.
SwapFails ==
    /\ imp.pc \in {"swap", "decode"}
    /\ Fault
    /\ imp' = [imp EXCEPT !.pc = "failed"]
    /\ UNCHANGED <<rows, memory, queued, load, page, blocking, ghosts>>

UploadEnds ==
    /\ imp.pc \in {"done", "failed"} /\ imp.src = "upload"
    /\ imp' = NoImport
    /\ UNCHANGED <<rows, memory, queued, load, page, blocking, ghosts, faults>>

\* The process ends: SQLite keeps what was committed, the lock nothing.
Restarts ==
    /\ Fault
    /\ tx' = None
    /\ cache' = None /\ store' = None /\ timer' = FALSE
    /\ queued' = None /\ load' = None
    /\ imp' = NoImport
    /\ forgot' = (forgot \/ page.base.gen < disk.db.gen)
    /\ page' = [page EXCEPT !.revoked = FALSE]
    /\ acked' = [refs |-> acked.refs \cap disk.db.refs,
                 chats |-> acked.chats \cap disk.db.chats,
                 assets |-> acked.assets]
    /\ UNCHANGED <<disk, late>>

---------------------------------------------------------------------------
(* The import of an account, as far as pages and data see it: it refuses   *)
(* writes from the confirmation on, replaces the data once the queue has   *)
(* run out, and revokes the pages loaded before, also when it failed.      *)

AccountBlocks ==
    /\ Admitted
    /\ blocking' = TRUE
    /\ UNCHANGED <<rows, memory, queued, load, imp, page, ghosts, faults>>

AccountApplies(v, plan) ==
    /\ blocking /\ imp = NoImport
    /\ disk.db.gen < MaxImports
    /\ imp' = [NoImport EXCEPT !.pc = "drain", !.src = "account", !.by = v,
                               !.plan = plan]
    /\ UNCHANGED <<rows, memory, queued, load, page, blocking, ghosts, faults>>

Revoked == page' = [page EXCEPT !.revoked = TRUE]

AccountReturns ==
    /\ imp.src = "account"
    /\ \/ imp.pc \in {"done", "failed"} /\ Revoked
       \/ imp.pc = "full" /\ UNCHANGED page
    /\ imp' = NoImport
    /\ blocking' = (imp.pc # "done")
    /\ UNCHANGED <<rows, memory, queued, load, ghosts, faults>>

AccountUnblocks ==
    /\ blocking /\ imp.src # "account"
    /\ blocking' = FALSE
    /\ UNCHANGED <<rows, memory, queued, load, imp, page, ghosts, faults>>

\* A marker on disk tells the next process whether to refuse writes.
RestartsBlocking ==
    /\ Restarts
    /\ blocking' \in BOOLEAN

QueueSteps ==
    ColdLoad \/ LoadEnds \/ RunAsset \/ RunPatch \/ RunPost \/ RunRead

ImportSteps ==
    \/ Drained \/ Begins \/ (\E a \in Assets : Streams(a)) \/ StreamEnds
    \/ Commits \/ Swaps \/ DecodeEnds \/ UploadEnds

ImportNext ==
    \/ \E r \in Requests : Arrives(r)
    \/ QueueSteps \/ TimerFires
    \/ UploadStarts \/ ImportSteps \/ Fails \/ SwapFails \/ NoRoom

AccountSteps ==
    \/ AccountBlocks \/ AccountUnblocks \/ AccountReturns
    \/ \E v \in Versions, plan \in SUBSET NewAssets : AccountApplies(v, plan)

ImportSpec ==
    /\ ImportInit
    /\ [][ImportNext \/ AccountSteps \/ RestartsBlocking]_importVars

---------------------------------------------------------------------------
(* Properties.                                                             *)

\* Requests are answered from everything pages were told is saved, whatever
\* was imported, rolled back or loaded again meanwhile.
ServesAcked ==
    /\ cache # None => acked.refs \subseteq cache.refs
    /\ store # None => acked.chats \subseteq store

\* And it is committed, or a timer knows that it is not; every asset that
\* was saved has its row.
AckedIsKept ==
    /\ ~timer => acked.refs \subseteq disk.db.refs /\ acked.chats \subseteq disk.db.chats
    /\ acked.assets \subseteq disk.assets

\* Nothing that was acknowledged is lost, in memory or on disk.
AckedSurvives == ServesAcked /\ AckedIsKept

\* Once a database is imported nothing brings an older one back, a load that
\* began before the commit excepted.
ImportedStays ==
    [][disk'.db.gen >= disk.db.gen \/ late']_importVars

\* A page loaded before an account was imported puts no chat body into the
\* new database, unless a restart forgot that it was revoked, or it loaded
\* from a load that began before.
OldPagesStayOut ==
    disk.db.by \in Versions /\ ~forgot /\ ~late =>
        \A post \in disk.db.chats : post.gen = disk.db.gen

===========================================================================

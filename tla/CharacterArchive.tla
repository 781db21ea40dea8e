--------------------------- MODULE CharacterArchive ---------------------------
(***************************************************************************)
(* Deactivation and activation of one character ("the archive":            *)
(* characterArchive.ts and the archive endpoints of server.cjs).  Its chat *)
(* bodies move from the store into an immutable row and back by calls of   *)
(* their own, while the move of its entry, from the list of characters to  *)
(* a stub that names the row, waits for the page's next save.  Between the *)
(* two the page may reload, the server restart, an answer get lost, or a   *)
(* request that an earlier page left behind arrive.                        *)
(*                                                                         *)
(* A body is a number, the edit that made it.  One page writes at a time   *)
(* (SessionLock); how a save fails otherwise is the subject of SaveLoop,   *)
(* how memory gets to disk of DbPersist: here a write never fails.         *)
(***************************************************************************)
EXTENDS Integers, FiniteSets, FiniteSetsExt

CONSTANTS
    Chats,        \* the character's chats
    MaxEdits,     \* model bound: edits
    MaxRows,      \* model bound: rows written
    MaxRestarts,  \* model bound: restarts of the server
    MaxReloads,   \* model bound: reloads of the page
    MaxSnapshots, \* model bound: snapshots taken, and restored
    NotLoaded     \* the database is not in memory

ASSUME ArchiveAssumption ==
    /\ IsFiniteSet(Chats) /\ Chats # {}
    /\ {MaxEdits, MaxRows, MaxRestarts, MaxReloads, MaxSnapshots} \subseteq Nat

VARIABLES
    srv,       \* the database on disk and in memory
    rows,      \* archive/<chaId>/<archivedAt>, by time
    snap,      \* a snapshot of the database file
    page,      \* what the page holds
    save,      \* its save in flight
    call,      \* its archive call in flight
    strays,    \* requests an earlier page sent, not served yet
    overtaken, \* rows edits were saved after, before a stub named them (ghost)
    gone,      \* the user deleted the character or let its stub go, or a rebase dropped it (ghost)
    used       \* counts for the model bounds

vars == <<srv, rows, snap, page, save, call, strays, overtaken, gone, used>>

None == -1
Edits == 0..MaxEdits
Bodies == [Chats -> Edits \cup {None}]
NoBodies == [k \in Chats |-> None]
Times == 1..MaxRows
NoRow == 0
Rows == {t \in Times : rows[t] # NoBodies}

\* Where a database lists the character. `touch` is its lastInteraction, by
\* which two revisions that list it alike differ after an edit.
Views == [active: BOOLEAN, stub: Times \cup {NoRow}, touch: Edits]
Untouched == [active |-> TRUE, stub |-> NoRow, touch |-> 0]
ToStub(t, touch) == [active |-> FALSE, stub |-> t, touch |-> touch]
ToList(view) == [view EXCEPT !.active = TRUE, !.stub = NoRow]

Files == [view: Views, body: Bodies]
Snapshots == [file: Files, saved: Bodies]
\* A save: the baseline it started from, the revision it expects, the one it makes.
Saves == [kind: {"save"}, synced: Views, from: Views, to: Views,
          stage: {"idle", "sent", "saved", "conflict", "mismatch", "rejected"}]
Calls == [kind: {"archive", "activate", "delete"}, at: Times \cup {NoRow},
          stage: {"idle", "sent", "done", "refused", "missing", "flushing"},
          again: BOOLEAN, touch: Edits]

ASSUME NotLoadedAssumption == NotLoaded \notin Views \cup Bodies \cup Snapshots

NoSave == [kind |-> "save", synced |-> Untouched, from |-> Untouched, to |-> Untouched,
           stage |-> "idle"]
NoCall == [kind |-> "archive", at |-> NoRow, stage |-> "idle", again |-> FALSE,
           touch |-> 0]

\* Memory is `cache` (dbCache), `store` (fullChatStore; a character without a
\* body there has no entry), `pending` (pendingActivations), `timer`.  Ghosts:
\* `saved`, the bodies last acknowledged; `kept`, those when the file was last
\* written; `over`, bodies acknowledged while the character was not listed;
\* `promised`, the stub whose activation this process answered, as long as it is
\* there; `displaced`, what activations have taken out of the store: posts that
\* were acknowledged, the row of the promised stub.
Servers == [disk: Files, cache: Views \cup {NotLoaded}, store: Bodies \cup {NotLoaded},
            pending: Times \cup {NoRow}, timer: BOOLEAN,
            saved: Bodies, kept: Bodies, over: Bodies, promised: Times \cup {NoRow},
            displaced: SUBSET {"posts", "row"}]

TypeOK ==
    /\ srv \in Servers
    /\ rows \in [Times -> Bodies]
    /\ snap \in Snapshots \cup {NotLoaded}
    /\ page \in [base: Views, etag: Views, local: Views, dirty: Bodies]
    /\ save \in Saves /\ call \in Calls
    /\ strays \subseteq Saves \cup Calls
    /\ overtaken \subseteq Times /\ gone \in BOOLEAN
    /\ used \in [edits: Edits, rows: 0..MaxRows, restarts: 0..MaxRestarts, reloads: 0..MaxReloads,
                 snaps: 0..MaxSnapshots, restores: 0..MaxSnapshots]

Init ==
    LET zero == [k \in Chats |-> 0] IN
    /\ srv = [disk |-> [view |-> Untouched, body |-> zero], cache |-> Untouched, store |-> zero,
              pending |-> NoRow, timer |-> FALSE,
              saved |-> zero, kept |-> zero, over |-> NoBodies, promised |-> NoRow,
              displaced |-> {}]
    /\ rows = [t \in Times |-> NoBodies]
    /\ snap = NotLoaded
    /\ page = [base |-> Untouched, etag |-> Untouched, local |-> Untouched, dirty |-> NoBodies]
    /\ save = NoSave /\ call = NoCall /\ strays = {}
    /\ overtaken = {} /\ gone = FALSE
    /\ used = [edits |-> 0, rows |-> 0, restarts |-> 0, reloads |-> 0, snaps |-> 0, restores |-> 0]

-----------------------------------------------------------------------------
(* The server's memory and its file.  These operators map a state of `srv` to the next one. *)

View(s) == IF s.cache = NotLoaded THEN s.disk.view ELSE s.cache

Over(new, old) == [k \in Chats |-> IF new[k] # None THEN new[k] ELSE old[k]]

\* The newest body a row holds of chat k (restoreUnmergedArchivedChats).
FromRows(k) ==
    LET holding == {t \in Times : rows[t][k] # None}
    IN  IF holding = {} THEN None ELSE rows[Max(holding)][k]

\* Every body of an active character: the store's, and what it lacks from the rows.
Filled(body) == Over(body, [k \in Chats |-> FromRows(k)])

\* carryPendingActivations: bodies registered by an activation outlive a
\* rebuild of the store until the list shows the character or another stub.
StillPending(s, view) == s.pending # NoRow /\ ~view.active /\ view.stub = s.pending
\* Mutated Carried: not used by the specification.
CarriedNone(s, view) == NoBodies

Carried(s, view) == IF StillPending(s, view) THEN s.store ELSE NoBodies

\* initChatStore
InitStore(s, view, body) ==
    [s EXCEPT !.store = IF view.active THEN body ELSE Carried(s, view),
              !.pending = IF StillPending(s, view) THEN @ ELSE NoRow,
              !.over = IF StillPending(s, view) THEN @ ELSE NoBodies]

\* Mutated Flushed: not used by the specification.
FlushedFromMemory(s) ==
    LET body == Filled(s.store)
        disk == [view |-> s.cache, body |-> body]
    IN  IF ~s.timer THEN s ELSE [s EXCEPT !.disk = disk, !.timer = FALSE, !.kept = s.saved]

\* Mutated Flushed: not used by the specification.
FlushedUnmerged(s) ==
    LET view == View(s)
        disk == [view |-> view, body |-> IF view.active THEN s.store ELSE NoBodies]
        wrote == [s EXCEPT !.disk = disk, !.timer = FALSE, !.kept = s.saved]
    IN  IF ~s.timer THEN s
        ELSE IF s.cache = NotLoaded THEN wrote
        ELSE InitStore(wrote, view, disk.body)

\* writePendingDb: with the view in memory the store is rebuilt from what was
\* written, without it the file's own view is filled from the store.
Flushed(s) ==
    LET view == View(s)
        body == IF s.cache = NotLoaded THEN s.store ELSE Filled(s.store)
        disk == [view |-> view, body |-> IF view.active THEN body ELSE NoBodies]
        wrote == [s EXCEPT !.disk = disk, !.timer = FALSE, !.kept = s.saved]
    IN  IF ~s.timer THEN s
        ELSE IF s.cache = NotLoaded THEN wrote
        ELSE InitStore(wrote, view, disk.body)

\* initChatStoreFromDisk
StoreFromDisk(s) == InitStore(s, s.disk.view, Filled(s.disk.body))

\* ensureChatStore
WithStore(s) == IF s.store = NotLoaded THEN StoreFromDisk(s) ELSE s

\* loadDbCacheIfMissing
Loaded(s) ==
    IF s.cache # NotLoaded THEN s
    ELSE LET f == Flushed(s) IN [StoreFromDisk(f) EXCEPT !.cache = f.disk.view]

\* What every archive endpoint and a read begin with.
Opened(s) == Loaded(Flushed(s))

\* A database that was just read, or that a restart will read.
FromDisk(s) ==
    [s EXCEPT !.cache = NotLoaded, !.store = NotLoaded, !.pending = NoRow,
              !.timer = FALSE, !.saved = s.kept, !.over = NoBodies, !.promised = NoRow]

-----------------------------------------------------------------------------
(* The page: `base` is its patcher's baseline, `etag` the revision it was last told. *)

\* After a save that did not end well the two differ, and the tracker has its changes again.
Unsaved == page.local # page.base \/ page.etag # page.base
Clean == page.dirty = NoBodies

\* A row some page means to put a stub for, or asks for. Rows are not purged for ten
\* minutes after they were written: the save is assumed to land by then.
Wanted(t) ==
    \/ call.stage # "idle" /\ call.at = t
    \/ Unsaved /\ page.local.stub = t
    \/ \E r \in strays \cup {save} : r.kind = "save" /\ r.stage # "idle" /\ r.to.stub = t

\* Rows whose stub a page is about to put when what was saved changes under it.
Overtake ==
    overtaken' = IF srv'.saved = srv.saved /\ srv'.over = srv.over THEN overtaken
                 ELSE overtaken \cup {t \in Times : Wanted(t)}

\* An edit: the user's, or an answer that is still being generated.
EditChat(k) ==
    /\ page.local.active
    /\ used.edits < MaxEdits
    /\ used' = [used EXCEPT !.edits = @ + 1]
    /\ page' = [page EXCEPT !.dirty[k] = used.edits + 1, !.local.touch = used.edits + 1]
    /\ UNCHANGED <<srv, rows, snap, save, call, strays, overtaken, gone>>

\* POST /api/chat-content; the answer may be lost, and the chat is sent again.
PostChat(k, acked) ==
    LET s == WithStore(srv)
        listed == View(s).active
        b == page.dirty[k] IN
    /\ page.local.active /\ b # None
    /\ srv' = [s EXCEPT !.store[k] = b, !.timer = TRUE,
                        !.saved[k] = IF listed THEN b ELSE @,
                        !.over[k] = IF listed THEN @ ELSE b]
    /\ Overtake
    /\ page' = IF acked THEN [page EXCEPT !.dirty[k] = None] ELSE page
    /\ UNCHANGED <<rows, snap, save, call, strays, gone, used>>

\* Bodies first, then the lists (triggerSave), as a patch of the baseline, which
\* moves before the request. Any other change of the database is saved the same
\* way and meets the same conflicts.
SendSave ==
    /\ save.stage = "idle" /\ Clean
    /\ Unsaved \/ View(srv) # page.base
    /\ save' = [NoSave EXCEPT !.synced = page.base, !.from = page.base, !.to = page.local,
                              !.stage = "sent"]
    /\ page' = [page EXCEPT !.base = page.local]
    /\ UNCHANGED <<srv, rows, snap, call, strays, overtaken, gone, used>>

\* The patch does not fit, though nobody else wrote: all of the database is sent.
FullWrite ==
    /\ save.stage = "mismatch"
    /\ save' = [save EXCEPT !.from = page.etag, !.to = page.local, !.stage = "sent"]
    /\ UNCHANGED <<srv, rows, snap, page, call, strays, overtaken, gone, used>>

SaveDone ==
    /\ save.stage = "saved"
    /\ page' = [page EXCEPT !.base = save.to, !.etag = save.to]
    /\ save' = NoSave
    /\ UNCHANGED <<srv, rows, snap, call, strays, overtaken, gone, used>>

\* The guard refused the page's own revision: SaveRejectedError.
SaveRejected ==
    /\ save.stage = "rejected"
    /\ save' = NoSave
    /\ UNCHANGED <<srv, rows, snap, page, call, strays, overtaken, gone, used>>

\* It stays unknown whether the server has what the baseline has moved to.
SaveAnswerLost ==
    /\ save.stage # "idle"
    /\ save' = NoSave
    /\ strays' = IF save.stage = "sent" THEN strays \cup {save} ELSE strays
    /\ used.reloads < MaxReloads /\ used' = [used EXCEPT !.reloads = @ + 1]
    /\ UNCHANGED <<srv, rows, snap, page, call, overtaken, gone>>

\* Mutated Merged: not used by the specification.
MergedTracked(b, l, s, tracked) ==
    [active |-> l.active, stub |-> s.stub, touch |-> l.touch]

\* mergeServerDbWithTrackedLocalChanges for one character: b as last synced, l
\* here, s the server's. Only this page's own moves are applied to the server's
\* lists; a character that is tracked comes from the page.
Merged(b, l, s, tracked) ==
    LET archivedHere == l.stub # NoRow /\ ~l.active /\ b.stub = NoRow
        kept == IF s.stub = NoRow /\ archivedHere THEN l.stub ELSE s.stub
        activatedHere == l.active /\ l.stub = NoRow /\ b.stub # NoRow /\ kept # NoRow
        stub == IF activatedHere THEN NoRow ELSE kept
        over == tracked \/ archivedHere \/ activatedHere
        active == IF over /\ ~(l.active /\ stub # NoRow) THEN l.active ELSE s.active
    IN  [active |-> active,
         stub |-> stub,
         touch |-> IF over /\ l.active = active /\ (active \/ s.stub = NoRow) THEN l.touch ELSE s.touch]

\* The tracker lists what was edited or moved since the last save that ended
\* well, what the patcher found changed, and what is or was selected.
Tracks(tracked) ==
    \A v \in {page.etag, save.synced} :
        page.local.touch # v.touch \/ page.local.active # v.active => tracked

\* A tracked character that was deactivated here at the last sync and is on the
\* server's list again is in neither part of the merge.
Dropped(b, l, s, tracked) == tracked /\ b.stub # NoRow /\ l.stub # NoRow /\ s.active

\* Edits of a character another revision deactivated are dropped with a notice.
KeptEdits(view) == IF view.active THEN page.dirty ELSE NoBodies

\* rebaseTrackedLocalChangesOnLatestServerDb
Rebase(tracked) ==
    LET s == Opened(srv)
        merged == Merged(save.synced, page.local, s.cache, tracked) IN
    /\ save.stage = "conflict" /\ Tracks(tracked)
    /\ srv' = s
    /\ page' = [base |-> s.cache, etag |-> s.cache, local |-> merged, dirty |-> KeptEdits(merged)]
    /\ save' = NoSave
    /\ gone' = (gone \/ Dropped(save.synced, page.local, s.cache, tracked))
    /\ UNCHANGED <<rows, snap, call, strays, overtaken, used>>

-----------------------------------------------------------------------------
(* Deactivation: flush, write the row, move the entry, flush *)

\* flushSaves succeeded: nothing is unsaved, the server has this revision.
FlushSucceeds == Clean /\ ~Unsaved /\ save.stage = "idle" /\ View(srv) = page.base

SendArchive ==
    /\ call.stage = "idle" /\ page.local.active
    /\ FlushSucceeds
    /\ call' = [NoCall EXCEPT !.stage = "sent"]
    /\ UNCHANGED <<srv, rows, snap, page, save, strays, overtaken, gone, used>>

ArchiveDone ==
    /\ call.kind = "archive" /\ call.stage = "done"
    /\ page' = IF page.local.active
               THEN [page EXCEPT !.local = ToStub(call.at, call.touch), !.dirty = NoBodies]
               ELSE page
    \* Edits since the row was written leave with the entry.
    /\ overtaken' = IF page.local.active /\ ~Clean THEN overtaken \cup {call.at} ELSE overtaken
    /\ call' = NoCall
    /\ UNCHANGED <<srv, rows, snap, save, strays, gone, used>>

-----------------------------------------------------------------------------
(* Activation: register the bodies, move the entry, save *)

SendActivate ==
    /\ call.stage = "idle" /\ ~page.local.active /\ page.local.stub # NoRow
    /\ call' = [NoCall EXCEPT !.kind = "activate", !.at = page.local.stub, !.stage = "sent"]
    /\ UNCHANGED <<srv, rows, snap, page, save, strays, overtaken, gone, used>>

ActivateDone ==
    /\ call.kind = "activate" /\ call.stage = "done"
    /\ page' = IF page.local.active THEN [page EXCEPT !.local.stub = NoRow]
               ELSE [page EXCEPT !.local = ToList(@)]
    /\ call' = NoCall
    /\ UNCHANGED <<srv, rows, snap, save, strays, overtaken, gone, used>>

\* ARCHIVE_ALREADY_ACTIVE: our own deactivation is not saved. Save, ask again.
ActivateRefused ==
    /\ call.kind = "activate" /\ call.stage = "refused"
    /\ call' = IF call.again THEN NoCall ELSE [call EXCEPT !.stage = "flushing"]
    /\ UNCHANGED <<srv, rows, snap, page, save, strays, overtaken, gone, used>>

AskAgain ==
    /\ call.stage = "flushing" /\ FlushSucceeds
    /\ call' = [call EXCEPT !.stage = "sent", !.again = TRUE]
    /\ UNCHANGED <<srv, rows, snap, page, save, strays, overtaken, gone, used>>

\* ARCHIVE_PAYLOAD_MISSING: the user may drop the stub.
ActivateMissing(drop) ==
    /\ call.kind = "activate" /\ call.stage = "missing"
    /\ page' = IF drop THEN [page EXCEPT !.local.stub = NoRow] ELSE page
    /\ gone' = (gone \/ drop)
    /\ call' = NoCall
    /\ UNCHANGED <<srv, rows, snap, save, strays, overtaken, used>>

-----------------------------------------------------------------------------
(* Permanent deletion from the trash: the rows, then the stub *)

SendDelete ==
    /\ call.stage = "idle" /\ page.local.stub # NoRow
    /\ call' = [NoCall EXCEPT !.kind = "delete", !.stage = "sent"]
    /\ UNCHANGED <<srv, rows, snap, page, save, strays, overtaken, gone, used>>

DeleteDone ==
    /\ call.kind = "delete" /\ call.stage = "done"
    /\ page' = [page EXCEPT !.local.stub = NoRow]
    /\ call' = NoCall
    /\ UNCHANGED <<srv, rows, snap, save, strays, overtaken, gone, used>>

\* A call failed: refused, its answer lost, the flush before it failed.
CallFailed ==
    /\ \/ call.kind # "activate" /\ call.stage = "refused"
       \/ call.stage \in {"flushing", "done", "missing"}
    /\ call' = NoCall
    /\ UNCHANGED <<srv, rows, snap, page, save, strays, overtaken, gone, used>>

-----------------------------------------------------------------------------
(* Requests, as the storage queue serves them *)

\* findArchiveConflicts
ArchiveConflict(s, to) ==
    \/ to.active /\ to.stub # NoRow
    \/ to.active /\ ~s.cache.active /\ Rows # {} /\ s.store = NoBodies

SaveAnswer(s, req) ==
    IF s.cache # req.from THEN "conflict"
    ELSE IF ArchiveConflict(s, req.to) THEN "rejected" ELSE "saved"

\* The view becomes the page's. What the character should hold now: as a stub
\* what it held, unless edits were saved behind the row's back; back on the
\* list the same and what was posted since. The code cannot keep this apart
\* where this process never activated the stub that the list loses, unless its
\* row is the newest and the store holds nothing but those posts.
Land(s, to) ==
    LET returns == to.active /\ ~s.cache.active
        leaves == to.stub # NoRow /\ to.stub # s.cache.stub
        newest == Rows = {} \/ s.cache.stub = Max(Rows)
        own == \/ s.promised = s.cache.stub
               \/ s.pending = NoRow /\ s.store = s.over /\ newest
    IN  [s EXCEPT !.cache = to, !.timer = TRUE,
                  !.saved = IF returns THEN IF own THEN Over(s.over, @) ELSE Filled(s.store)
                            ELSE IF leaves /\ to.stub \in overtaken THEN rows[to.stub] ELSE @,
                  !.over = IF returns THEN NoBodies ELSE @,
                  !.promised = IF to.stub = s.cache.stub THEN @ ELSE NoRow]

\* What the page makes of the answer: a refusal with a revision it does not know is a conflict.
Outcome(s, answer) ==
    IF answer = "saved" THEN "saved" ELSE IF s.cache # page.etag THEN "conflict"
    ELSE IF answer = "rejected" THEN "rejected" ELSE "mismatch"

\* POST /api/patch, and the full write, which also persists at once. Both find the
\* view in memory: a full write names its revision, for which a restarted
\* server loads it.
AfterSave(s, req, whole) ==
    LET landed == Land(s, req.to)
    IN  IF SaveAnswer(s, req) # "saved" THEN s ELSE IF whole THEN Flushed(landed) ELSE landed

ServeSave(whole) ==
    LET s == Loaded(srv) IN
    /\ save.stage = "sent"
    /\ srv' = AfterSave(s, save, whole)
    /\ save' = [save EXCEPT !.stage = Outcome(s, SaveAnswer(s, save))]
    /\ Overtake
    /\ UNCHANGED <<rows, snap, page, call, strays, gone, used>>

\* Mutated WriteRow: not used by the specification.
WriteRowFromOlder(s) ==
    /\ used.rows < MaxRows
    /\ used' = [used EXCEPT !.rows = @ + 1]
    /\ rows' = [rows EXCEPT ![used.rows + 1] = Over([k \in Chats |-> FromRows(k)], s.store)]

\* Mutated WriteRow: not used by the specification.
WriteRowInPlace(s) ==
    /\ used.rows < MaxRows
    /\ used' = [used EXCEPT !.rows = @ + 1]
    /\ rows' = [t \in Times |-> IF t \in Rows \cup {used.rows + 1} THEN Filled(s.store) ELSE rows[t]]

\* writeArchiveRow: all bodies, from the store or older rows, in a new row.
WriteRow(s) ==
    /\ used.rows < MaxRows
    /\ used' = [used EXCEPT !.rows = @ + 1]
    /\ rows' = [rows EXCEPT ![used.rows + 1] = Filled(s.store)]

CanArchive(s) == s.cache.active /\ s.cache.stub = NoRow /\ \A k \in Chats : Filled(s.store)[k] # None

\* POST /api/characters/:chaId/archive and archive-batch
ServeArchive ==
    LET s == Opened(srv) IN
    /\ call.kind = "archive" /\ call.stage = "sent"
    /\ srv' = s
    /\ IF CanArchive(s)
       THEN WriteRow(s) /\ call' = [call EXCEPT !.stage = "done", !.at = used.rows + 1, !.touch = s.cache.touch]
       ELSE UNCHANGED <<rows, used>> /\ call' = [call EXCEPT !.stage = "refused"]
    /\ UNCHANGED <<snap, page, save, strays, overtaken, gone>>

\* The row of the stub the client names becomes the character's entry of the
\* store, whatever is there: posts since an earlier activation, another row.
Register(s, t) ==
    [s EXCEPT !.store = rows[t], !.pending = t,
              !.promised = IF t = s.cache.stub THEN t ELSE @,
              !.displaced = @ \cup (IF s.over = NoBodies THEN {} ELSE {"posts"})
                              \cup (IF s.promised \in {NoRow, t} THEN {} ELSE {"row"})]

ActivateAnswer(s, t) ==
    IF s.cache.active THEN "refused" ELSE IF t \notin Rows THEN "missing" ELSE "done"

AfterActivate(s, t) == IF ActivateAnswer(s, t) = "done" THEN Register(s, t) ELSE s

\* POST /api/characters/:chaId/activate
ServeActivate ==
    LET s == Opened(srv) IN
    /\ call.kind = "activate" /\ call.stage = "sent"
    /\ srv' = AfterActivate(s, call.at)
    /\ call' = [call EXCEPT !.stage = ActivateAnswer(s, call.at)]
    /\ UNCHANGED <<rows, snap, page, save, strays, overtaken, gone, used>>

\* DELETE /api/characters/:chaId/archive
DeleteRows(s) ==
    IF s.cache.active THEN UNCHANGED <<rows, gone>>
    ELSE rows' = [t \in Times |-> NoBodies] /\ gone' = TRUE

ServeDelete ==
    LET s == Opened(srv) IN
    /\ call.kind = "delete" /\ call.stage = "sent"
    /\ srv' = s
    /\ DeleteRows(s)
    /\ call' = [call EXCEPT !.stage = IF s.cache.active THEN "refused" ELSE "done"]
    /\ UNCHANGED <<snap, page, save, strays, overtaken, used>>

\* POST /api/db/archive/purge-orphans; `old` are rows past the grace period.
Purgeable(s) == {t \in Rows : View(s).stub # t /\ ~Wanted(t)}

Purge ==
    LET s == Opened(srv) IN
    /\ \E old \in SUBSET Purgeable(s) \ {{}} :
        rows' = [t \in Times |-> IF t \in old THEN NoBodies ELSE rows[t]]
    /\ srv' = s
    /\ UNCHANGED <<snap, page, save, call, strays, overtaken, gone, used>>

-----------------------------------------------------------------------------
(* Requests of an earlier page: nobody waits for the answer *)

Leave(r) == strays' = strays \ {r} /\ UNCHANGED <<snap, page, save, call>>

ServeStraySave ==
    LET s == Loaded(srv) IN
    \E r \in strays :
        /\ r.kind = "save"
        /\ srv' = AfterSave(s, r, FALSE)
        /\ Overtake
        /\ UNCHANGED <<rows, gone, used>>
        /\ Leave(r)

ServeStrayCall ==
    LET s == Opened(srv) IN
    \E r \in strays :
        /\ \/ /\ r.kind = "archive"
              /\ IF CanArchive(s) THEN WriteRow(s) ELSE UNCHANGED <<rows, used>>
              /\ srv' = s
              /\ gone' = gone
           \/ /\ r.kind = "activate"
              /\ srv' = AfterActivate(s, r.at)
              /\ UNCHANGED <<rows, gone, used>>
           \/ /\ r.kind = "delete"
              /\ srv' = s
              /\ DeleteRows(s)
              /\ used' = used
        /\ overtaken' = overtaken
        /\ Leave(r)

-----------------------------------------------------------------------------
(* Timers, snapshots, reloads, restarts *)

\* The save timer fires.
Persist ==
    /\ srv.timer
    /\ srv' = Flushed(srv)
    /\ UNCHANGED <<rows, snap, page, save, call, strays, overtaken, gone, used>>

\* createBackupAndRotate copies the file.
TakeSnapshot ==
    /\ used.snaps < MaxSnapshots
    /\ snap' = [file |-> srv.disk, saved |-> srv.kept]
    /\ used' = [used EXCEPT !.snaps = @ + 1]
    /\ UNCHANGED <<srv, rows, page, save, call, strays, overtaken, gone>>

\* A page that starts reads the database.
Boot(s) ==
    /\ srv' = s
    /\ page' = [base |-> s.cache, etag |-> s.cache, local |-> s.cache, dirty |-> NoBodies]
    /\ save' = NoSave /\ call' = NoCall

Reload ==
    /\ used.reloads < MaxReloads
    /\ used' = [used EXCEPT !.reloads = @ + 1]
    /\ Boot(Opened(srv))
    \* What the last one sent is still on its way.
    /\ strays' = strays \cup {r \in {save, call} : r.stage = "sent"}
    /\ UNCHANGED <<rows, snap, overtaken, gone>>

\* POST /api/db/snapshots/restore; the page reloads. What was sent before
\* is assumed to have arrived by then.
RestoreSnapshot ==
    LET s == [Flushed(srv) EXCEPT !.disk = snap.file, !.kept = snap.saved] IN
    /\ snap # NotLoaded
    /\ used.restores < MaxSnapshots
    /\ used' = [used EXCEPT !.restores = @ + 1]
    /\ Boot(Loaded(FromDisk(s)))
    /\ strays' = {}
    /\ Overtake
    \* The snapshot's row was purged, or deleted with the character.
    /\ gone' = (gone \/ snap.file.view.stub \notin Rows \cup {NoRow})
    /\ UNCHANGED <<rows, snap>>

\* The server restarts: its memory and the requests it had not served are lost.
Restart ==
    /\ used.restarts < MaxRestarts
    /\ used' = [used EXCEPT !.restarts = @ + 1]
    /\ srv' = FromDisk(srv)
    /\ save' = IF save.stage = "sent" THEN NoSave ELSE save
    /\ call' = IF call.stage = "sent" THEN NoCall ELSE call
    /\ strays' = {}
    /\ UNCHANGED <<rows, snap, page, overtaken, gone>>

Next ==
    \/ \E k \in Chats : EditChat(k) \/ \E acked \in BOOLEAN : PostChat(k, acked)
    \/ SendSave \/ FullWrite \/ SaveDone \/ SaveRejected \/ SaveAnswerLost \/ \E tracked \in BOOLEAN : Rebase(tracked)
    \/ SendArchive \/ ArchiveDone
    \/ SendActivate \/ ActivateDone \/ ActivateRefused \/ AskAgain
    \/ \E drop \in BOOLEAN : ActivateMissing(drop)
    \/ SendDelete \/ DeleteDone \/ CallFailed
    \/ \E whole \in BOOLEAN : ServeSave(whole)
    \/ ServeArchive \/ ServeActivate \/ ServeDelete \/ Purge
    \/ ServeStraySave \/ ServeStrayCall
    \/ Persist \/ TakeSnapshot \/ Reload \/ RestoreSnapshot \/ Restart

Spec == Init /\ [][Next]_vars

-----------------------------------------------------------------------------
(* Properties *)

\* A file with this view and these bodies holds what was saved.
Holds(view, body, saved) ==
    /\ view.active => body = saved
    /\ view.stub # NoRow => rows[view.stub] = saved

\* Requests are answered with the bodies last acknowledged (writeArchiveRow,
\* the activate endpoint, carryPendingActivations and
\* restoreUnmergedArchivedChats together).
MemoryHoldsSaved == Holds(View(srv), Filled((WithStore(srv)).store), srv.saved)

\* So does the file: a restart finds what was saved when it was written.
DiskHoldsSaved == Holds(srv.disk.view, srv.disk.body, srv.kept)

\* However calls, saves, rebases and restarts interleave, the character is on
\* the list or has a stub, and never both (mergeTrackedLocalChanges).
InOnePlace ==
    \A view \in {View(srv), srv.disk.view, page.local} :
        view.active <=> view.stub = NoRow

\* The character is in one place, and its bodies there are those last
\* acknowledged, unless the user deleted them or an activation displaced them: one
\* that is served after posts for an earlier one, or that names another row
\* than the stub this process had activated.
HoldsSaved ==
    \/ gone
    \/ InOnePlace /\ (srv.displaced = {} => MemoryHoldsSaved /\ DiskHoldsSaved)

\* "so a restored database.bin snapshot resolves to the exact body it was
\* taken with" (server.cjs:6591), as long as its row is not purged.
SnapshotResolves ==
    \/ snap = NotLoaded \/ gone \/ srv.displaced # {}
    \/ snap.file.view.stub \notin Rows \cup {NoRow}
    \/ Holds(snap.file.view, snap.file.body, snap.saved)

\* A character an activation put back on the page's list is accepted by the
\* server that answered it (carryPendingActivations): the guard refuses a patch or
\* a write of its own revision only after a restart, or after a late activation
\* of another row displaced what was registered.
ActivationIsAccepted ==
    [][/\ save.stage = "sent" /\ save'.stage \in {"conflict", "rejected"}
       /\ View(srv) = save.from
       => srv.promised \notin {save.from.stub} \ {NoRow} \/ "row" \in srv.displaced]_vars
=============================================================================

# PocketRisu in TLA+

PocketRisu is a self-hosted chat client. A Node server (`server/node/`) owns the data, relays the
model requests and records their answers; a browser client (`src/ts/`) holds the whole database in
memory, edits it and syncs it back. There is one user, but several devices and tabs, phones that
suspend a page in the middle of a request, and a server that may be restarted at any time.

Most of the code is conversion: of prompts, of provider formats, of cards. What is hard in it is
order. Who may write when two tabs are open; what becomes of an answer whose tab died; which of two
copies of a chat is the newer one; what is left on disk when a write fails between two others. That
is what this directory models: ten state machines; two abstract specifications that two of them are
shown to implement, and one machine that implements another; the TLC configurations that check them; and
TLAPS proofs about all of them.

Paths below are relative to the repository root.

## 1. Inventory

### Server

| Part | Where | State | Operations | Hard behaviour | Correct when |
|---|---|---|---|---|---|
| Session write lock | `server/node/session-lock.cjs` | active session and time of its last accepted write, boot times; memory only | register, checkWrite, peek, revokeAll | takeovers, late registrations, imports, restarts | a page that writes has seen what the last writer wrote |
| Model jobs | `server/node/model-jobs.cjs` | job rows (SQLite), journals (files), running jobs (memory) | create, relay, journal, stream, claim, delete, rotate, start-up pass | disk errors, aborts, readers at the end of the journal, crash | an answer called complete is complete; an unclaimed one is kept |
| Pending sends | same file, and `src/ts/process/request/pendingSends.ts` | a tombstone per chat | register, clear, list, claim | calls that overtake each other, dead tabs | one tombstone starts one send, and an interrupted send is not forgotten |
| Persistence of `database.bin` | `server/node/server.cjs` | `dbCache`, `fullChatStore`, `unlistedChatPosts`, `saveTimers`, the file | chat post and get, patch, full write, flush, timers, cold load | failed writes, loads over a newer store, bodies against stubs | what was acknowledged is served and reaches the disk |
| Chat content and fingerprints | `server.cjs`, `chatFingerprint.cjs` | one entry of `fullChatStore` | prefix check, splice | base changed by another device | a delta stores what a whole transfer would |
| Data import | `server.cjs` | the transaction of the one connection, and what memory holds of the old data | stream, commit by batches, swap, roll back | other requests write through the same connection meanwhile | what is acknowledged stays; no older database comes back |
| Account import | `risu-account-import.cjs` | phase, plan, login, staged data and marker on disk | prepare, download, apply, cancel, restart | it replaces everything under the feet of the open pages, over several restarts | exactly what was confirmed is applied, and it ends |
| Snapshots, backups, save-folder migration | `server.cjs` | rotated copies | create, rotate, restore, export | rotation against restore | a snapshot holds what was saved |
| Plugin storage | `plugin-storage-store.cjs`, `upstream-plugin-storage.cjs` | rows by plugin key, split from `database.bin` once | get, set, batch, snapshot | old and new clients side by side | no row is lost by the split |
| Asset manifests | `assetManifestStore.cjs`, `assetManifestMigration.cjs` | manifest rows, activation marks | build, activate, supersede, hydrate | a write from a client that lacks the assets | no asset list is lost |
| Chunk store and SQLite layer | `chunkStore.cjs`, `db.cjs` | chunks, manifests over them | put, get, collect | crash between chunks and manifest | a manifest's chunks exist |
| Character archive | `server.cjs`, `src/ts/characterArchive.ts` | archive rows, stubs, pending activations | deactivate, activate, delete, purge | bodies move at once, entries with the next save | wherever the character is listed, its bodies are the last saved |
| Proxy and stream jobs | `proxy2.cjs`, `server.cjs` | proxied requests, websockets | start, stream, heartbeat, expire | late attach, expiry while read | a stream ends, or says that it failed |
| Orphan sweep of assets and inlays | `server.cjs` | blobs and references | put, get, sweep | a sweep between a blob and its listing | nothing referenced is swept |
| Patch hash cache, logs, auth, tunnel, self-update | several | local | several | none that others depend on | unit-testable |

### Client

| Part | Where | State | Operations | Hard behaviour | Correct when |
|---|---|---|---|---|---|
| Job fetch | `src/ts/process/request/jobFetch.ts` | the live stream of a job | create, stream, claim, give up | the stream is lost, the job is not | a lost stream leaves the chat guarded |
| Job recovery | `jobRecovery.ts` | attached jobs, poll loops, discovery in flight | discover, attach, recover, release | several passes over one job, saves that fail | nothing is claimed that is not saved; guards have an owner |
| Interrupted sends | `pendingSends.ts`, `DefaultChatScreen.svelte` | a queue of calls, flagged chats | evaluate, flag, resume | stale selection, two resume calls | as pending sends above |
| Send pipeline | `process/index.svelte.ts`, `generationState.ts` | one entry per chat | start, stop, conclude | a stopped send that wakes up late | one generation per chat |
| Chat delta sync | `storage/chatDeltaSync.ts`, `chatFingerprint.ts` | fingerprints of the last sync, queue per chat, browser copies | save, fetch | stale bases, overlapping saves | as chat content above |
| Save loop, conflicts, rebase | `globalApi.svelte.ts`, `nodeStorage.ts`, `risuSave.ts`, `rebaseMerge.ts` | change tracker, baseline, ETag, edit counters | track, patch, full write, rebase, hand off | edits during a save, two devices editing | no edit is silently dropped, none taken back |
| Asset manifest cache, name resolution | `storage/assetManifestCache.ts`, ... | cached manifests by generation | load, invalidate | answers that arrive late | no stale manifest is kept |
| Plugin host and store | `plugins/pluginStorageStore.ts`, ... | write queue | set, flush, retry | retries that reorder | the last write wins |
| Boot | `bootstrap.ts` | none | register, load | registration after load | see the lock |
| Providers, memory, scripts, cards, UI, other services | several | local | several | data, not order | unit-testable |

`PROJECT.json` lists all 36 parts with the same division and, for each one that is left out or
modelled in part, the reason.

### How the parts meet

* A page registers its boot with the **lock**, loads `database.bin` and the chats it opens, and
  every write request passes `checkWrite` first. An **import** replaces the data and revokes the lock;
  that of an account refuses all writes from its start to its end, across restarts.
* Edits reach the server on two ways: the list of chats by a patch or a full write that the **save loop**
  sends to the **persistence core**, the bodies one at a time through **delta sync**. The two may come in any
  order, which is why the server has `unlistedChatPosts`.
* A send registers a **tombstone**, assembles its prompt (which may itself call models), creates a
  **model job** and streams it. If the page lives, it saves the reply, claims the job and clears the
  tombstone. If it dies, the next page asks for unclaimed and running jobs and for tombstones: a
  job is **recovered** into the chat, a tombstone without a job is a send to **resume**.
* The **archive** moves a character's bodies by requests of its own, and its entry by the save loop. What
  keeps the two together is the guard of the persistence core, which takes no entry without its bodies.

## 2. Modules

| Module | Models | Used with |
|---|---|---|
| `SessionLock` | the lock, and the pages, imports and restarts around it | `ServerProofs` |
| `ModelJobs` | the recorder of model jobs and the stream tail | `ServerProofs` |
| `JobStore` | what the recorder promises: abstract specification | instantiated by `ModelJobs` |
| `PendingSends` | tombstones, the send pipeline, discovery and resumption | `PendingSendsProofs` |
| `JobRecovery` | the collection of answers by live sends, polls and discoveries | `JobRecoveryProofs` |
| `ChatDeltaSync` | saving and loading of one chat by deltas | `ChatDeltaSyncProofs` |
| `WholeChatSync` | saving and loading of whole chats: abstract specification | instantiated by `ChatDeltaSync` |
| `DbPersist` | view, bodies, timers and disk around one chat | `DbPersistProofs` |
| `SaveLoop` | the save loop of a page, its patches, full writes and rebases, against other devices | `SaveLoopProofs` |
| `DataImport` | the replacement of all data while the server goes on answering | `ImportProofs` |
| `AccountImport` | the import of an account: extends `DataImport`, and implements it | `ImportProofs` |
| `CharacterArchive` | deactivation and activation of a character | `CharacterArchiveProofs` |

A module `MCx` extends `x` with the constant values and symmetry sets TLC needs and nothing else.
All but `AccountImport` are checked apart: each takes its neighbours by what they may do to its state.
`PendingSends` takes a model job as running, ended or over; `JobRecovery` takes a journal as
empty, partial or whole; `ChatDeltaSync` takes the server's persistence as an atomic store and leaves
its restart to `DbPersist`; `SaveLoop` takes the server as a view that a request replaces whole or not at
all; `DataImport` and `CharacterArchive` take `DbPersist` without its failures. `AccountImport` is composed with
`DataImport`: its steps replace the gate (`AccountSteps`) that stands for any account import there.

### SessionLock

`holder`, `lastWriteAt` and `boots` are `active.id`, `active.lastWriteAt` and the map of boots;
`clock` is `Date.now()`. The data is a number, `version`, and a page's `copy` is the version it
loaded or made itself; `holderVersion` is the newest version made by a write that moved
`lastWriteAt`. Whether a page is *fresh* is decided by two times and has to imply something about two
versions: that is the point of the lock, and what the invariants say.

`Register(s, acked)` is `POST /api/session`; `acked` is false when the answer was lost, in which case
the page registers again later (`lateBoot`). The five `Write...` actions are the paths of
`checkWrite`: adoption of a free lock, a write of the holder, a takeover by a gesture, a passive
write that keeps the lock where it is, a rejection. A write may be accepted and still change nothing
(`applied`), as a handler may fail after the check. `ImportStart`, `ImportApply`, `ImportSwap`,
`RevokeAll` and `ImportEnd` are the phases of the account import as far as the lock sees them.
`ServerRestart` forgets lock and boots, and with them the claim that no page of before an import holds the
lock: the code keeps nothing that could tell.

### ModelJobs and JobStore

One row, one journal and one `runJob` coroutine for each job. The coroutine is cut at its awaits: headers
(`UpstreamAnswers`), chunks, the end or failure of the upstream, `ws.end()` and its callback, the
`'error'` event of the write stream, `Finalize`. `handed` counts bytes given to the write stream,
`file` those in the file; `Flush` moves one to the other, `DiskFails` breaks that, and a crash loses
the difference. A job whose journal cannot be created leaves its entry in `activeJobs` without a
coroutine: phase `"orphaned"`. Requests are `CreateJob`, `ClaimJob`, `AbortJob`, `DeleteJob` and the
stream tail, cut at its awaits into `Attach`, `AwaitHeaders`, `OpenJournal`, `ReadBytes`, `ReadEnd`
and `CheckTerminal`. `CleanupTerminalJobs` is a periodic action, and part of `Crash`, which also
turns running rows into failed ones with the bytes they have. A crash is a `Restart`, or `RowVanishes`: a stream
that waits for headers reads its row again after each sleep, and when the row was deleted meanwhile the handler
throws and the process ends.

A job's chat, its kind and the length of its answer are constants, so a job identifier is used once. The
wakers of the stream tail are abstracted: a reader that waits also has a one-second timer, so
looking at the journal is possible at any time.

`JobStore` has a status, a set of claimed jobs, the bytes recorded, and readers who follow. It
knows no coroutines, streams, buffers or event loop. `ModelJobs!Store` maps the recorder to it:
`text` is the file, `over` is a reader's normal end.

### PendingSends

One chat, open on several devices or tabs. `tomb` is its tombstone; `chain` is `opChains`, a tab's queue of
register, clear and claim requests, which the model serves strictly in order, as the promise chain does. A send
is a number, has a `fate`, a `job`, the send it was started to run again (`rerunOf`) and the tombstone whose claim
started it (`took`): two things, because a claim names the chat and not the send. `SendStep` has the pipeline:
start, save of the user message, `FireJob`, `Push` of a streamed message, `Conclude`, `Reply`, `Fail`, the forced
release after a stop (`ForceRelease`) and the stopped send that wakes up after it (`StuckWakes`). `LetGo` claims or
aborts the job, or leaves it as it is: a send whose connection was lost ends while its job goes on, and the job is
recovered later (`RecoverJob`), by filling in the message it already has or by a new one (`Replied`).
`DiscoveryStep` lists the unclaimed jobs, then the running jobs with the tombstones, and evaluates them. A resume
call takes the flag (`TakeResumable`), checks the chat (`Revalidate`), claims, and starts the send again.

No call of a living tab fails (the code swallows a failure, and the next discovery finds what a lost clear leaves);
those of a tab that dies were served before or are dropped. The minimum age of a tombstone is the
action `Age`; its expiry after 48 hours is left out; another device sees changes of the chat only by reloading it.

### JobRecovery

One tab, one chat, and jobs that are generations of it. A text is empty, partial or whole. `chat`
is the message list in the tab, `saved` what the server has; `entry` is the `generationStates`
entry with its owner; a *worker* is a poll loop or the discovery, and `rec` is where its call of
`recoverTerminalJob` stands. That call is cut at its awaits: the message is looked up in `Begin`,
the journal read in `Read`, `ReadAndClaim` or `ReadThrows`, the chat saved in `Save` or `SaveFails`, the job
claimed in `Claim`. All else may happen in between, another worker's call for the same job included. The user may
delete the chat at any time (`DeleteChat`, `home`): a job whose chat is not there is claimed without being put
anywhere, as `Begin` does, and a live send writes where the chat was (`Stray`). A deletion that was not saved is
undone when the tab dies.

User turns and edits are left out, as is the forced release of an entry, which is in `PendingSends`. `Die` is
the loss of the tab: only rows, journals and `saved` survive.

### ChatDeltaSync and WholeChatSync

A chat is a sequence of messages. `known` holds the fingerprints of the last sync, taken as injective
and so modelled by the messages themselves; `calls` is the queue of saves of the chat, whose
first has a request under way; `copy` is the copy in IndexedDB; `answer` is the answer to
`fetchChat`. A delta is a base length and the messages after it; the server checks the prefix
(`PrefixMatches`) and splices, or rejects, upon which the client sends the chat as it is by then as a
whole (`Retry`), with the fingerprints of the start. `OtherDevice` stores anything; `Reload`
loses the tab's memory and keeps the browser's copy, however old. A request that fails does not
arrive later.

`WholeChatSync` is the naive protocol: offer a whole chat, store it, fetch a whole chat. The
refinement says that deltas are an optimisation and nothing more.

### DbPersist

One chat, from its first post through its listing to its deletion. `cache` is the view in `dbCache`
(a revision of all else, and whether the chat is new, listed or deleted), `store` the body in `fullChatStore`,
`timer` the pending callback in `saveTimers` and what it writes. The functions that load, merge, rebuild
and write are operators on a memory record: `Ensured` is `ensureChatStore`, `Rebuilt` is
`initChatStore`, `Loads` the cold load, `Writes` and `Flushes` what a write can come to, the
failures of `kvSet` and the refusal by the guard of stubs and archive rows (`Refused`) included. Actions compose them
as the handlers do: `PostChat`, `GetChat`, `ReadDb`, `Patch`, `PatchThrows`, `FullWrite`, `FlushDb`, `TimerFires`,
`Replace` (restore, import, migration) and `Restart`.

Two history variables: `acked`, the edits clients were told are saved, and `torn`, true from the moment the
server itself drops or damages its memory (an operation of a patch that does not apply, a full
write that fails after it rebuilt the store, a refusal) until the database is replaced or the
server restarted. `Restart` sets `acked` to what
is on disk: a debounced write may be lost by a crash, and the code accepts that. Every handler is one
step, because with the server's own format no decode yields. Requests the ETag or hash check turns down change
nothing and are `ReadDb`. The expiry of unlisted posts is left out.

### SaveLoop

The database is a set of fields, each with the edit that made it (`by`, `n`, `st`): root keys, the blocks with a
dirty flag, the plugins, the characters. A hash and an ETag are the content they are computed from. The page has
its live `db`, the patcher's `base`, the change tracker (`tracked`, and `head`, the selected character that a
save leaves in it), and the counters `editSeq` and `savedEditSeq` that decide whether a handoff may reload
without asking. `att` is the attempt in flight: what it took from the tracker, what it sent, and where it
stands. Attempts start in the loop (`LoopSaves`), or by a flush (`Flush`), in which case the loop waits
(`LoopJoins`). `PatchSet` is the patcher's `set`, `ServerPatch` and `ServerWrite` the server's answer
by hash or ETag, `FullWrite` what follows a patch that cannot be made or is refused, `StartsRebase`, `ServerRead`
and `Rebased` the conflict. `Merged` is the function of `rebaseMerge.ts` with the overlay of `globalApi`: root
keys by their difference from the baseline, characters by the tracker, archived ones by where each side has
them. `OtherWrites` is any edit of another device that the lock lets through, `BackgroundEdit` and
`GenerationStarts` are changes that no change effect sees. `HandOff`, `AutoReload` and `UserReload` end the page.

`PatchSet` is one step, as are the reads of the live database in it. `BaselineBefore` is the baseline a failed
attempt leaves, which is part old and part new because `set` updates in place. A failed attempt puts its changes back
and tries again (`Fails`), after a while with an alert and longer waits. One that the server rejects although it
names the current revision (`SaveRejected`: a character returns from the archive whose activation the server does not
know, as after `ServerRestarts`) puts them back and leaves them for the next edit (`asleep`). `forceFullWrite` has
no caller; a 423 is `Refused`; characters without an unambiguous id are left out.

### DataImport and AccountImport

A database is the one it descends from (`gen`, `by`), the assets it refers to and the chat bodies posted into
it. There is one SQLite connection: `tx` is what it sees while a transaction is open, `disk` what is committed, and
`Put` writes through whichever it is, a request's rows included. `cache`, `store` and `timer` are memory. `queued`
is the request at the head of the storage queue, `load` its decode of the database when that yields. An import is
`UploadStarts` or `Drained` (an account waits for the queue), `Begins`, `Streams` for each entry, `StreamEnds`,
`Commits`, `Swaps`, `DecodeEnds`, with `NoRoom`, `StreamCutOff`, `Fails` and `SwapFails` where it may end
early; `Restarts` may happen between any two. Ghosts: `acked` is what pages were told is saved in this
database, `late` that a load from before a commit ended after it, `forgot` that a restart lost the
revocation of an older page.

`AccountImport` adds the phases: `Prepare` with its three awaits, `StartDownload`, `Fetches`, `DownloadEnds` and
its failures, `StartApply`, `Applied` or `ApplyFailed`, `CleansUp`, `Cancel` and `CancelEnds`, and a `Restart` that
finds what `meta.json`, the staged database and the staged files say. Each file operation that is awaited on its
own is a step, so a meta write may land after the cancel that removed the file (`MetaLands`). The ghost
`approved` is the database the user saw, `leftover` that a removal failed.

### CharacterArchive

One character with its chats; a body is the number of its edit. `srv` is the server: `cache`, `store`, `timer`,
`pending` (the registered activations) and `disk`; `rows` are the archive rows by time; `page` is what the one
writing page holds: the patcher's baseline (`base`), the revision it knows (`etag`) and its database (`local`). The
baseline moves before the request (`SendSave`), so after a lost answer it may be ahead of the server: the next
patch does not fit, and the page sends everything (`FullWrite`) or, when another revision is there, rebases with
that baseline. The body moves with `ServeArchive` and `ServeActivate`, the entry with `ServeSave`, whose
`Carried`, `StillPending`, `FromRows` and `Land` are `carryPendingActivations`, `restoreUnmergedArchivedChats` and the
guard. Answers get lost, requests of a page that reloaded arrive later (`strays`), a conflict makes the page
rebase (`Rebase`, `Merged`), the page may ask the activation again (`AskAgain`) or give the entry up (`ActivateMissing`), rows are
deleted or purged, snapshots are taken and restored. Ghosts: `saved` and `kept` are the bodies last acknowledged and
those of them on disk, `over` what was posted while the character was archived, `promised` the stub whose activation
this process answered, `displaced` what an activation put out of the store (acknowledged posts, or the row of the promised
stub), `overtaken` the rows edits were saved after, and `gone` that the character was deleted, that
the user let its stub go, or that a rebase dropped it.

A purge takes no row that an open page is about to name (`Wanted`): the code allows ten minutes, and the model
takes them as long enough. Requests sent before a snapshot is restored have arrived.

## 3. What is checked

| Run | Distinct states | Shows |
|---|---|---|
| `session_lock` | 627 thousand | `FreshCopyCoversHolder`: a page the lock calls fresh, and that registered before it loaded, has every change of every holder and import. `NoPreImportHolder`: no page from before an import holds the lock after it. `HandoverIsSafe`: the lock passes from page to page only to one that lacks nothing of the other's |
| `model_jobs` | 930 thousand | `DoneIsComplete`, `EndedStreamIsWhole`, `OneMainPerChat`; `RotationSparesUnclaimed`: a rotation gives up an uncollected answer only for newer uncollected ones. `WaitsEnd`: every stream ends, is left by its client or goes down with the server (`StreamsEnd`), and every aborted job ends (`AbortEnds`). The refinement `ImplementsStore` |
| `job_recovery` | 15.8 million | `LiveKeepsEntry`: nobody releases the guard of a live send. `GuardHasPoller`: a background guard has a poll loop that will release it. `RecoveryClaimsSaved`: recovery claims nothing that is not saved, but for a chat that is deleted in the tab. `FailureShownOnce` |
| `pending_sends` | 2.6 million | One tab. `UnansweredIsRemembered`: a send without an answer keeps its tombstone, but for two clears that are meant for an older send. `ClaimSparesOwnSend`: a claim never takes the tombstone of the send its tab runs |
| `pending_sends_tabs` | 4.0 million | Two tabs. `NoResurrection`: no tombstone of a concluded send comes back. `OneReRunPerTombstone`: one tombstone starts one send at most |
| `pending_sends_rerun` | violation | Two tabs. `ReRunAtMostOnce`, as `pendingSends.ts:76-77` has it, fails: one interrupted send is run again twice (section 5) |
| `chat_delta_sync` | 283 thousand | the refinement `ImplementsWholeSync`, and `QueueMoves`: the queue of saves moves whatever other devices write |
| `db_persist` | 5 thousand | `AckedSurvives`: what was acknowledged is served (`ServesAcked`), and on disk or with a timer (`NothingPendingUnrecorded`). `KeepsBodies`: no write takes the body of a listed chat. `GetsToDisk` |
| `save_loop` | 2.7 million | `EditsAccounted`: an edit that the server never had does not count as saved (`SavedReached`), and is in the tracker or in the attempt (`NothingForgotten`). `NeverReverts`: a save takes nothing of another device back, but for what a rebase lays over it whole. `RebaseKeepsEdits`: what a rebase keeps of the page's characters (`CharacterEditsKept`) and root keys (`RootEditsKept`). `EditsGetSaved`: unsaved edits reach the server once failures stop, or wait for the next edit |
| `data_import` | 3.9 million | `AckedSurvives`: imports, failures and loads lose nothing acknowledged, in memory (`ServesAcked`) or on disk (`AckedIsKept`). `ImportedStays`: no older database comes back. `OldPagesStayOut`: no page from before an account import puts a chat into the new database |
| `account_import` | 683 thousand | the refinement `ImplementsDataImport`. `RefusalOutlivesRestart`: a restart refuses writes if they were refused (`BlockingSurvives`), and only then (`RestartUnblocks`). `PlanIsStaged`, `ReplacesAsConfirmed`: what is applied is what was confirmed, whole. `WorkEnds`: no phase that refuses both cancel and login lasts |
| `character_archive` | 6.7 million | `HoldsSaved`: the character is in one place (`InOnePlace`), and its bodies there are the last acknowledged, in memory (`MemoryHoldsSaved`) and on disk (`DiskHoldsSaved`), unless an activation displaced them. `SnapshotResolves`: a restored snapshot finds the bodies it was taken with. `ActivationIsAccepted`: after an activation this server answered the guard refuses no save, unless one of another row displaced it |

`TypeOK` is checked by the run of `CharacterArchive`, and proved for all modules (section 4). `OneInFlight`, `RunningIsActive`, `TokenAtRest` and `AutoReloadLosesNothing` are proved too;
TLC has confirmed them and no run repeats them.

`PROJECT.json` names for each property a mutation of the model that breaks it, such as a dropped
guard, a step out of order or a retry that is left out; the mutated operators stand before the ones
they would replace and are marked as not used.

### Bounds

Each one is a CONSTANT, and appears as a guard of the action it bounds.

* `SessionLock`: two sessions, one remembered boot (so that the second evicts the first), clock and
  version up to 3: a load, a write by the holder and a takeover at different times, and at the same one.
* `ModelJobs`: two jobs of one chat with answers of one and two bytes, one reader, one row retained, one
  restart. Two jobs are what the single-generation guard and the rotation need; two bytes are what a
  reader needs to be behind the file while the file is behind the stream.
* `PendingSends`: one tab with two overlapping resume calls, two sends, two queued calls, one main request, three
  deaths or forced releases, chat switches: a send that dies, and a newer one that everything left of it may hit. Two
  tabs with a resume call each, three sends (one that died, and a re-run in each tab), no main request. These two runs
  begin after the death of the first send in both tabs (`SpecInterrupted` in `MCPendingSends`), a state that `Spec`
  reaches; without it the two tabs are out of reach.
* `JobRecovery`: two jobs, one death, one deletion of the chat. One poll loop each and the discovery make three workers.
* `ChatDeltaSync`: two messages, chats of up to two of them, two queued saves. Appending, replacing,
  truncating and diverging are all there at length two.
* `DbPersist`: two revisions, two bodies, two failed writes: a failure, and another while it is retried.
* `SaveLoop`: a root key, a block and a character; two edits or selections of the page (one in the attempt, one during
  it), one edit of another device, one change off screen, one fault. The plugins have a set of their own, left empty,
  since they differ from a block in the rebase only. After more than five rebases in a row the code gives up as for a
  rejection; one edit of another device causes one.
* `DataImport`: two assets, of which the first database refers to one, a chat, two imports (so that a load may
  straddle the second), two failures or restarts, an upload or an account for each.
* `AccountImport`: one asset and two versions of the account (the plan shown and the one there at the next check), one
  import, two faults: a failure and a restart after it, which is where the marker and the files disagree. The chats
  are left to `DataImport`.
* `CharacterArchive`: two chats (one edited, one not), one edit, two rows (deactivated, activated, deactivated
  again), one restart, one reload, one snapshot.

Clocks, sends, jobs, edits, imports and deaths run out, a discarded job and a claimed one stay what they are: those
systems may stop, so the configurations say `CHECK_DEADLOCK FALSE`. Sessions, devices and resume calls are
symmetric, and only runs without liveness properties use that (`session_lock` and those of `PendingSends`).

### Fairness

* `ModelJobs`: weak fairness of the steps of a job's coroutine (an upstream request answers, ends or is
  timed out), of the operating system's writes, of the `end()` callback, and of a reader's next step. No
  fairness for clients: nobody has to claim, abort or attach. When the journal cannot be created, no
  coroutine will ever end the job, and `WaitsEnd` excepts it (`orphaned`).
* `ChatDeltaSync`: weak fairness of the step of the save under way: a request is answered or fails.
* `DbPersist`: weak fairness of the timer. Posts and patches restart a debounce, so this assumes that
  clients pause now and then; failed writes are bounded by `MaxFails`, and without that bound a disk that
  never works would refute any such property.

* `SaveLoop`: weak fairness of the page's own steps (the loop runs every half second, retries and rebases follow
  without the user) and of the server's answer, and of the end of each generation. No fairness for edits, for the
  user or for other devices. `EditsGetSaved` excepts two kinds of edits that stay queued until the next
  one: those of a save that was rejected, and one made while the loop waits for a save it did not start (section 5).
* `AccountImport`: weak fairness of what the server runs by itself: the check, the download, the cleaning up
  (`Working`), the requests of the storage queue and the import. Strong fairness of `Drained`, because the
  import waits in the storage queue, which is first in, first out: new requests may come for ever, but not before it.

`SessionLock`, `PendingSends`, `JobRecovery`, `DataImport` on its own and `CharacterArchive` have safety properties only, and no
fairness.

## 4. What is proved

For every value of the constants, from the assumptions the modules name: bounds are naturals (and at
least one boot is tracked), special values such as `Nobody` or `Nothing` are none of the ordinary ones, and
`ChatOf` and `AnswerLen` are functions of the jobs (`SessionsAssumption`, `BoundsAssumption`,
`JobsAssumption`, `LimitsAssumption`, `ChatDeltaSyncAssumption`, `DbPersistAssumption`, `FieldsAssumption`,
`ImportAssumption`, `NoneAssumption`, `NoneOfAccount`, `JobRecoveryAssumption`, `PendingSendsAssumption`,
`ArchiveAssumption`, `NotLoadedAssumption`). No proof uses that a set among the constants is finite, which some of them say for TLC.

**`ServerProofs`**, on `SessionLock`: `LockTypeCorrect`, `FreshnessIsSafe`, `ImportRevokesForGood`, `HandoverSafe`. The
invariants speak of versions but are enforced by times, so alone they are not inductive. `LockInv` adds
`Past` (no time lies ahead of the clock), `UnheldKnowsNothing` (while the lock is free no boot is
known, so nobody is fresh) and `Versions` (the import's version is not ahead of the holder's, nor
that of the data). The argument is one of time: a boot strictly after the last write was
registered when the holder's version already existed, and the page loaded later than that.

On `ModelJobs`: `SpecTypeOK`, `SpecRunningIsActive`, `SpecOneMainPerChat`, `SpecDoneIsComplete`,
`SpecEndedStreamIsWhole`, `SpecRotationSparesUnclaimed` and `RecorderImplementsStore`. `IInv` adds `Bookkeeping` (the file is a part of
what was handed over, that a part of the answer, and all of it once the loop has ended well; the file of a done job is
all of it unless a write failed) and `ReadersFollow` (a reader is on a job that was created, and past its terminal
check only on one that is over). The refinement has no premise on the disk: `JobStore` itself excepts from its promise an answer
a write of which failed (`Cut`), and a server that goes down under a stream is its `Crash`. For `RotationSparesUnclaimed`,
`RotationKeepsNewest` says of the set a rotation keeps that no row left out ended later than one kept.

**`ChatDeltaSyncProofs`**: `SpecTypeOK`, `SpecOneInFlight`, `SpecImplementsWholeSync`. The two lemmas
that carry it are about sequences: `SpliceIsWhole`, a matching prefix of the stored chat followed
by the delta is the chat the save began with, and `AssembledIsStored`, what a load makes of the browser's
copy and the answer is the stored chat at the time of the answer. `IInv` has `OneInFlight`,
`CallsFit` (no base is longer than its chat, and no call waits without a chat) and `AnswerFits` (an answer
and the copy it was made for are a chat together). Fingerprints are injective in the module, so
the proof is about the protocol and says nothing of hash collisions.

**`DbPersistProofs`**: `SpecTypeOK`, `SpecNothingPendingUnrecorded`, `SpecServesAcked`,
`SpecAckedSurvives`, `SpecKeepsBodies`. The invariant is stated over the record `mem` rather than over the variables, so that
it can follow a handler from one function to the next: `Sound(mem)` (the disk is whole, and a store that
was not loaded has nothing pending) holds always; `Agrees(mem, acked)` (memory and disk together hold
what was acknowledged, and the disk alone once there is no timer) as long as nothing was dropped; and
`Spares` relates the memory before and after as to bodies on disk. There is one lemma for each function
(`RebuiltFields`, `EnsuredAgrees`, `LoadedAgrees`, `WrittenAgrees`, `WritesOutcome`, `FlushesOutcome`,
`LoadsOutcome`, ...), then one for each action, each of which only combines those.

**`SaveLoopProofs`**: `TypesHold`, `SavedIsReached`, `NothingIsForgotten`, `AutoReloadIsSafe`,
`RebaseKeepsCharacters`, `RebaseKeepsRoots`, `EditsAreAccounted` and `RebaseKeepsAll` that combine them, and
`WritesOnlyItsOwn`. The invariant follows an edit through an attempt: those it started after are in its list (`Carried`) and in what is sent, those made since are in the tracker (`Late`). So
once the server has what was sent, exactly the late edits are unsaved, which is what the counters say. The two
theorems on rebases are about `Merged` and need the types alone.
`WritesOnlyItsOwn` has an invariant of its own, `RInv`, on top of that one:

* `Unique`: an edit is made once and to one field, so a field that equals an earlier one was not written since;
* `Dirty`: a block or plugin that differs from the baseline is in the tracker, or in the attempt that reads it;
* `Copies`: where the page differs from a copy it has of the server's database (the baseline, the revision of its
  etag, the one its request is checked against), the difference is an edit of its own that is not known to be saved,
  or a field laid over whole (`Owns`, `Knows`), and archived characters are archived in both (`Follows`). For
  characters this is claimed only while the server still has the copy's value: a background edit whose answer was lost
  is in no list, and the server then has another value than the copy;
* `Newer`: what changed in the page after a request was built is an edit of its own and newer than the request;
* `Requests`: so a request differs from what it is checked against only in such edits, which is the theorem.

**`ImportProofs`**, on `DataImport`: `ImportTypeCorrect`, `AcknowledgedIsServed`, `AcknowledgedIsKept`,
`AcknowledgedSurvives`, `NoOlderDatabase`, `NoOldPageWrites`. The
invariant says, for each place a database can be in (disk, transaction, memory, a load under way, the import's
list), what of `acked` it holds and who writes next. It has two parts: one for what was acknowledged, and
`OneGeneration`, that memory, timer and loads are of the generation on disk unless a load is late. It rests
on the transaction: it is open exactly from the first batch to the commit, and an account's import has only reads
beside it. `NoOldPageWrites` adds that, while
the database is an account's and no restart forgot the revocations (`Sealed`), what is on disk, in memory and in a
transaction is that database with bodies of its own pages only (`OnlyNew`), and a page of an older one has no write
left in the queue and was revoked, or is refused until it is (`OldPages`).

On `AccountImport`: `AccountTypeCorrect`, `AccountImplementsImport`, `RefusalSurvives`, `PlanStaysStaged`,
`LoginDropped`, `NoNewRefusal`, `RefusalFollowsMarker`, `OnlyTheConfirmed`. `AccountImplementsImport` is the
refinement: every step of the composition is a step of
`DataImport` or leaves its variables alone, so the theorems above hold of an account import as well. The other
invariants need five more conjuncts, one for each thing that runs: the application, the cancel, the check, the
download, and the marker on disk, whose value must follow `blocking` through every interleaving of a write and a
removal. For `OnlyTheConfirmed`, what is staged is what was
approved whenever it may be applied, also after a restart (`ConfirmedIs`), the import applies what is staged
(`ImportIs`) and commits all it planned to bring (`Brought`), and what is on disk or decoded afterwards is that
import's, whatever loads end late (`NoneNewer`, `Replaced`).

**`JobRecoveryProofs`**: `SpecTypeOK`, `SpecLiveKeepsEntry`, `SpecGuardHasPoller`, `SpecRecoveryClaimsSaved`,
`SpecFailureShownOnce`. The deletion of the chat is in all of them. `IInv` adds `Known` (a worker is at a job that is over, a poll loop at its own), `Owners` (the
entry is the live send's exactly while it runs, and nobody else is at its job), `Single` (until its answer is
collected a job has one message at most), `Prefix` (the server has the same messages as the tab, up to some length)
and `Slots` (where a recovery found the message it still is; once read a done job's text is in the chat, once saved
with the server). Two workers on one job make it long: the first may insert, complete or claim while the second
still knows where the message was.

**`PendingSendsProofs`**, for any number of devices, tabs, overlapping resumes and queued calls: `SpecTypeOK`,
`SpecNoResurrection`, `SpecClaimSparesOwnSend` and `SpecOneReRunPerTombstone`. That one *send* is run again at most once
does not hold with two devices, whatever the comment says (section 5); what the claim's single statement does give is
that no two sends are started on the strength of one *tombstone*. The invariants, each on the ones before:

* `Cleared` (a send that no longer runs has a clear queued behind its registration) is inductive with `TypeOK`;
* `SendsInv`: nothing speaks of a send not started (`Known`), a send runs exactly in the tab it is live in
  (`LiveRuns`) and is registered by that tab (`Owned`);
* `OwnSpared`: while a claim is queued the tombstone is not that of the tab's running send, whose registration is
  queued behind;
* `OnceInv`: a tombstone that is there, or on its way, was not won (`TombWaits`, `QueuedWaits`), it is on its way once
  (`QueuedOnce`), and one that was won was won by one call and has started no send yet (`GotOnce`, `GotWaits`).

**`CharacterArchiveProofs`**: `SpecTypeOK`, `SpecHoldsSaved`, `SpecSnapshotResolves`, `SpecActivationIsAccepted`. That the
bodies are where the entry says is not inductive: it does not say what is in memory while it is ahead of the file, nor
what becomes true when a request on its way lands. `Inv` says both:

* `Sound(srv)`, at all times: memory is there with its view or its timer, without a timer it is what the file holds,
  and bodies an answered activation registered stay in the store as long as its stub is there (`promised`) and no
  activation of another row displaced them, which is all `SpecActivationIsAccepted` needs;
* `Agrees(srv)`, while the character is not `gone` and nothing was `displaced`: the stub's row, or else the store filled from the rows, has what was
  acknowledged, and the file what was acknowledged when it was written. As in `DbPersistProofs` there is a lemma for
  each function of the server, `FlushedKeeps`, `LoadedKeeps`, `PostedKeeps`, `RegisterKeeps`, `FromDiskKeeps` and,
  the longest, `LandKeeps` for a save that passed the guard;
* `PutHolds`: a row whose stub may still be put, by an answered deactivation, by the page's list where its baseline or
  its revision has not got it, or by a save not served yet (`Put`), is there, and holds what was acknowledged or was overtaken (`Ready`);
* `ViewsFit`: no revision that anyone holds or sent lists the character twice, or nowhere, which is a case analysis of
  `Merged`; `NamedOnce`: none has a stub for a row whose deactivation was just answered; `Answers`: what the
  requests under way and left behind are about, and that a stub in the revision the page was told of is in its
  baseline, too, however far that is ahead;
* `SnapHolds` for the snapshot, and `RowsWritten`: a row has a body for every chat, and its time is in the past.

The filling from rows takes the newest one, and `FilledFromNewest` needs that it exists: `MaxIn` proves it from the
library's theorem on well-founded relations.

### Only model-checked

* Liveness (`WaitsEnd`, that is `StreamsEnd` and `AbortEnds`, `QueueMoves`, `GetsToDisk`, `EditsGetSaved`, `WorkEnds`):
  temporal reasoning from fairness needs `ENABLED`, which the installed prover does not handle.
* `UnansweredIsRemembered` of `PendingSends`.
* That every other property a run checks holds for all values of the constants is a theorem, but for `ReRunAtMostOnce`,
  which does not hold.

## 5. What the models show and the properties leave out

Writing the models brought up behaviour that differs from what a comment says, or that a reader may not expect.
No property of section 3 claims the opposite, `ReRunAtMostOnce` apart: each one names the exception, or the ghost
variable that marks it.

Lock, jobs, sends, persistence:

* A page whose boot registration failed registers again before a later request (`nodeStorage.ts:345`). The lock
  concludes from the boot time (`session-lock.cjs:18-19`) that the page has loaded the last write, and a page that loaded
  first and registered later has not (`lateBoot`).
* The callback of `end()` may run before the write stream emits `'error'` (`model-jobs.cjs:467`), so a flush that
  fails at the very end leaves a done row over a truncated journal; lines 427-429 promise a complete one.
* A stream that waits for headers takes the server down when its job is deleted meanwhile: the row read again after a
  sleep is undefined (`model-jobs.cjs:607`), and a rejection nobody handles ends the process
  (`logs.cjs:354-370`), with every job that runs (`RowVanishes`).
* A poll loop and a discovery that recover one job at once both insert its message: whether it exists is decided
  before the journal is awaited (`jobRecovery.ts:506`; lines 456-457 exclude it).
* A job that ends between the requests for unclaimed and for running jobs is in neither answer
  (`jobRecovery.ts:815`), and its send is run again; lines 712-714 mean to exclude that.
* An older send's job that discovery saw also clears the tombstone of a later send (`jobRecovery.ts:715`), and a send
  that wakes up after its forced release does (`index.svelte.ts:1625`). `UnansweredIsRemembered` excepts both.
* A claim takes whatever tombstone the chat has by then, since it names the chat only (`model-jobs.cjs:401-405`). With
  two tabs that both flagged a dead send, the second claim takes the tombstone that the first one's re-run has
  registered, and the send is run again twice; `pendingSends.ts:76-77` excludes that "even with several clients
  around" (`pending_sends_rerun`).
* A claim that was won is given up when the chat is no longer selected or generates by then
  (`DefaultChatScreen.svelte:666`): the tombstone is gone, and the send is not run.
* Recovery claims the job of a chat that is deleted in its tab (`jobRecovery.ts:472-478`). If the tab dies before the
  deletion is saved, the chat comes back without its answer. A live send writes by the chat's index after a deletion
  (`index.svelte.ts:1716-1724`), and claims its job before the chat is saved (`jobFetch.ts:346`).
* A full write rebuilds the store before it stores the database (`server.cjs:4410`). If that fails, the bodies of the
  chats it would have deleted are gone while the view lists them (`torn`); lines 4435-4436 mean to exclude it.

Save loop (`globalApi.svelte.ts`, `rebaseMerge.ts`):

* The tracked characters are laid over the server's whole on a rebase. The selected one stays tracked, and so
  does one with a reply under way: another device's edits of it are taken back, edited here or not
  (`LaidWhole`). Blocks are laid over in the same way.
* After a 409 the new ETag is adopted before the revision is read (lines 1114-1119). If the read fails, the
  fallback writes over what the page has not seen; lines 1466-1470 exclude that for the patch path
  (`etag = synced` in `NeverReverts`).
* An edit of a root key whose request got lost is in the baseline already. If another device writes before the
  retry, the rebase sees no difference and drops it (`RootEditsKept` excepts it). Edits of the plugins are
  in no overlay, and edits of the other blocks made while the save was in flight are not either.
* An edit made while the loop waits for a save that a flush started may wake nobody, and a save that the server
  rejects is not tried again (lines 1671-1680): both stay queued until the next edit (`asleep` in `EditsGetSaved`).
* A tracked character that was deactivated here at the last sync and is active on the server again is in neither part
  of the merge (`rebaseMerge.ts:91-93`, `146-148`): the stub goes and the character is not laid over (`Dropped`,
  which sets `gone` in `CharacterArchive`).

Imports (`server.cjs`, `risu-account-import.cjs`):

* What pages save while an uploaded backup is in its transaction is acknowledged, and rolled back with it when
  it fails (`Counts`). An account's import has no such writes.
* The decode after the commit runs outside the storage queue. A cold load that began before a second import's
  commit may put the older database back (`late`).
* A restart forgets which pages were revoked (`forgot`).
* `cancel` says that the current data was never touched. After an application that failed once the data was
  committed, it was.
* A write of `meta.json` may land after a cancel removed it, and a removal may fail. With a restart after it, the
  server refuses writes for an import that nobody confirmed (`leftover`).

Archive (`server.cjs`, `characterArchive.ts`):

* An edit that is saved between the row's write and the save of the stub leaves with the entry (`overtaken`):
  `characterArchive.ts:96-98` flushes before the call, not after.
* A restart between an activation and its save makes the guard refuse that page's saves until it reloads.
  If one of the chats is posted first, the others are filled from the newest row, which after the restore of a snapshot
  is not the stub's (`Land` takes what the code then serves as saved, unless this process activated that stub).
* An activation writes the row's bodies over whatever the store has of the character (`server.cjs:7219-7226`). One that
  is served again after posts for an earlier one, a late request or one asked again after a reload, loses those
  posts, acknowledged as they are; lines 771-777 mean to keep them. One that names an older row puts that row where the
  promised one was: a save then lands with the older bodies, or the store is dropped as not listed, and
  the save refused without any restart (`displaced` in `HoldsSaved` and `ActivationIsAccepted`).
* Bodies posted for a character that the server lists as deactivated and did not activate live until the next
  rebuild of the store only; they are saved when the character's entry is (`over`).
* The baseline moves before the request. When the answer to the save of a new stub is lost, and a foreign revision
  lists the character again, the rebase drops it (`Dropped`, above).
* A rebase brings the stub of a deleted character back.

## 6. What is not modelled

`PROJECT.json` gives the reason for each part. In short: interpreters and conversions of user data
(scripts, CBS, provider formats, cards) are data without protocol; the user interface is presentation but for
the one effect that resumes a send; SQLite and the file system are external, and a transaction or a
statement is atomic. Plugin storage, asset manifests, stream jobs, the orphan sweep and the chunk store are
protocols, and next in the plan. Inside the modelled parts, the abstractions that could hide something are:

* an await that only yields (a microtask) is no place for an interleaving unless other code can run there;
* `PendingSends` loses no call of a living tab, and has no expiry of tombstones; a stopped send that wakes late, an older job
  that clears a newer tombstone and a claim whose tab has switched the chat are in its state space;
* `DbPersist` takes the server's own format of `database.bin`. The older format decodes with yields in the
  timer callbacks, which run outside the storage queue. `DataImport` has that decode for reads and for the
  import, but its timer callback is one step;
* in `ChatDeltaSync` a request that fails does not take effect later;
* `SaveLoop` has one page with memory, the other devices are their writes; a request that fails has arrived or
  has not, and does not arrive later;
* in `DataImport` and `CharacterArchive` a write of the database by the server does not fail;
* in `JobRecovery` the chat may be deleted, but its character is not deactivated meanwhile;
* in `CharacterArchive` a purge spares the rows an open page is about to name, and the refusals a purged row
  would cause are not in its state space;
* `CharacterArchive` has one character; several in one call take the same steps one after another. The
  acceptance of lost chats, the reading back of a row just written and the renaming of chat ids are left out.

## 7. Plan

Done, in this order: `SessionLock`, `ModelJobs` over `JobStore`, `PendingSends`, `JobRecovery`,
`ChatDeltaSync` over `WholeChatSync`, `DbPersist`, `SaveLoop`, `DataImport`, `AccountImport` over `DataImport`,
`CharacterArchive`; and the proofs of section 4, of every safety property above.

Next to model:

1. `PluginStorage`: the one-time split, snapshots that carry the rows, mixed clients, and the client's write queue.
2. `AssetManifests`: activation and supersession on the server, cache generations in the client.
3. `ProxyStream`: a stream job with websocket, heartbeat and expiry. `ChunkStore`: manifests over chunks and
   collection. The orphan sweep against writes that have not listed their asset.
4. `DbPersist` with decodes that yield in its timer callbacks.

## 8. Running it

    tlc -config SessionLock.cfg MCSessionLock       # likewise for the other configurations
    tlapm ServerProofs.tla                          # likewise for the other modules named ...Proofs

`PendingSends_tabs.cfg` and `PendingSends_rerun.cfg` go with `MCPendingSends`.

------------------------------ MODULE SaveLoop ------------------------------
(***************************************************************************)
(* How one page gets its edits to the server (saveDb in                    *)
(* ts/globalApi.svelte.ts, the patcher of ts/storage/risuSave.ts, the      *)
(* merge of ts/storage/rebaseMerge.ts) while other devices write the same  *)
(* database: the change tracker, patches checked by a hash, full writes    *)
(* checked by an etag, the rebase on the server's database after a         *)
(* conflict, retries, and the handoff that ends a page's saving.           *)
(*                                                                         *)
(* The database is a set of fields, each with the last edit made to it.    *)
(* A hash and an etag both stand for the content they are computed from,   *)
(* so they are that content.  Chat bodies travel on their own (module      *)
(* ChatDeltaSync) and the write lock decides who may write (SessionLock);  *)
(* what the lock admits meanwhile is an edit of another device here.       *)
(***************************************************************************)
EXTENDS Naturals, FiniteSets

CONSTANTS
    Roots,        \* root keys: settings, personas, ...
    Blocks,       \* botPresets and modules, each with a dirty flag
    Plugins,      \* the plugins block, with its dirty flag
    Chars,        \* characters, by chaId
    NoChar,       \* nothing at the head of the tracked characters
    MaxEdits,     \* model bound: edits and selections the page makes
    MaxForeign,   \* model bound: edits of other devices
    MaxUnseen,    \* model bound: replies started and changes made off screen
    MaxFaults     \* model bound: lost requests and answers, server errors,
                  \* sends that do not stop in time

Fields == Roots \cup Blocks \cup Plugins \cup Chars

ASSUME FieldsAssumption ==
    /\ Roots \cap (Blocks \cup Plugins \cup Chars) = {}
    /\ Blocks \cap (Plugins \cup Chars) = {}
    /\ Plugins \cap Chars = {}
    /\ NoChar \notin Chars

ASSUME BoundsAssumption ==
    /\ MaxEdits \in Nat /\ MaxForeign \in Nat /\ MaxUnseen \in Nat
    /\ MaxFaults \in Nat

VARIABLES
    view,         \* server: what it serves, field -> edit
    reached,      \* every edit the server ever held
    foreign,      \* edits of other devices so far
    registered,   \* server: archived characters activated since it started
    db,           \* page: its live database
    base,         \* page: the patcher's baseline, lastSyncedDb
    etag,         \* page: the revision it last synced against
    synced,       \* the last content the page wrote or merged (ghost)
    tracked,      \* page: the change tracker
    head,         \* the tracked character a save leaves in the tracker
    changed,      \* page: the save loop has something to do
    asleep,       \* what is queued waits for the next edit
    edits,        \* edits and selections so far, for the bound
    editSeq,      \* page: number of edits its change effects counted
    savedEditSeq, \* page: the edits a successful save started after
    gotChannel,   \* page: it handed off, saving is paused
    generating,   \* characters a reply streams into
    unseen,       \* replies started and changes made off screen so far
    att,          \* the save attempt in flight
    faults

serverVars == <<view, reached, foreign, registered>>
trackVars == <<tracked, head, changed>>
syncVars == <<base, etag, synced>>
seqVars == <<edits, editSeq, savedEditSeq>>
genVars == <<generating, unseen>>
vars == <<view, reached, foreign, registered, db, base, etag, synced, tracked, head,
          changed, asleep, edits, editSeq, savedEditSeq, gotChannel, generating,
          unseen, att, faults>>

Statuses == {"active", "archived", "gone"}

\* An edit: who made it, which one, and where it leaves a character.  The
\* page's edits are numbered by editSeq.
Edits ==
    [by: {"start", "page", "background", "other", "merge"},
     n: Nat, st: Statuses]

Databases == [Fields -> Edits]

Phases == {"idle", "chats", "patch", "patched", "write", "written",
           "read", "merge"}

Answers == {"none", "ok", "conflict", "refused", "failed"}

Start == [by |-> "start", n |-> 0, st |-> "active"]
NewDb == [f \in Fields |-> Start]

Attempts ==
    [pc: Phases, toSave: SUBSET Fields, head: Chars \cup {NoChar},
     wide: SUBSET Chars, start: Nat, byLoop: BOOLEAN, ans: Answers,
     exp: Databases, sent: Databases, cur: Databases, old: Databases]

Idle == [pc |-> "idle", toSave |-> {}, head |-> NoChar, wide |-> {},
         start |-> 0, byLoop |-> FALSE, ans |-> "none",
         exp |-> NewDb, sent |-> NewDb, cur |-> NewDb, old |-> NewDb]

TypeOK ==
    /\ view \in Databases /\ db \in Databases
    /\ base \in Databases /\ etag \in Databases /\ synced \in Databases
    /\ reached \subseteq Edits
    /\ foreign \in 0..MaxForeign
    /\ registered \subseteq Chars
    /\ tracked \subseteq Fields
    /\ head \in (tracked \cap Chars) \cup {NoChar}
    /\ edits \in 0..MaxEdits
    /\ editSeq \in Nat /\ savedEditSeq \in 0..editSeq
    /\ changed \in BOOLEAN /\ asleep \in BOOLEAN /\ gotChannel \in BOOLEAN
    /\ generating \subseteq Chars /\ unseen \in 0..MaxUnseen
    /\ att \in Attempts
    /\ att.start <= editSeq
    /\ faults \in 0..MaxFaults

Init ==
    /\ view = NewDb /\ db = NewDb /\ base = NewDb /\ etag = NewDb
    /\ synced = NewDb
    /\ reached = {Start}
    /\ foreign = 0 /\ registered = {}
    /\ tracked = {} /\ head = NoChar
    /\ changed = FALSE /\ asleep = FALSE
    /\ edits = 0 /\ editSeq = 0 /\ savedEditSeq = 0
    /\ gotChannel = FALSE
    /\ generating = {} /\ unseen = 0
    /\ att = Idle
    /\ faults = 0

Active(d) == {c \in Chars : d[c].st = "active"}
Archived(d) == {c \in Chars : d[c].st = "archived"}
Fault == faults < MaxFaults /\ faults' = faults + 1

---------------------------------------------------------------------------
(* The user, the page's background work and the other devices.             *)

\* One dirty flag covers every root key, the deactivated list among them.
Tracks(f, st) ==
    IF f \in Roots THEN Roots
    ELSE IF "archived" \in {db[f].st, st} THEN Roots \cup {f} ELSE {f}

\* Where an edit of c may leave it.  A character is put away only after a
\* flush that saved it, and returns only from what the server put away.
Moves(d, c) ==
    IF c \notin Chars THEN {"active"}
    ELSE {s \in Statuses :
            \/ d[c].st = "active" /\ s # "archived"
            \/ d[c].st = "active" /\ s = "archived" /\ d[c] \in reached
            \/ d[c].st = "archived" /\ s = "active" /\ c \in Archived(view)}

\* The head of the list is the selected character, or the one that was
\* last taken out of the database while none is selected.
Heads(f, st) ==
    IF f \notin Chars THEN {head}
    ELSE IF st # "active" THEN {f} \cup {c \in tracked : c \in Active(db) \ {f}}
    ELSE IF f \in Active(db) \/ head = NoChar THEN {f}
    ELSE {head}

Edit(f, st) ==
    /\ edits < MaxEdits /\ edits' = edits + 1
    /\ st \in Moves(db, f)
    /\ editSeq' = editSeq + 1
    /\ db' = [db EXCEPT ![f] = [by |-> "page", n |-> editSeq + 1, st |-> st]]
    /\ tracked' = tracked \cup Tracks(f, st)
    /\ head' \in Heads(f, st)
    /\ changed' = TRUE
    /\ registered' = registered \cup (Archived(db) \cap Active(db'))
    /\ UNCHANGED <<view, reached, foreign, syncVars, asleep, savedEditSeq,
                   gotChannel, genVars, att, faults>>

\* A character brought to the screen counts as edited.
Selects(c) ==
    /\ edits < MaxEdits /\ edits' = edits + 1
    /\ c \in Active(db) /\ c # head
    /\ editSeq' = editSeq + 1
    /\ tracked' = tracked \cup {c} /\ head' = c
    /\ changed' = TRUE
    /\ UNCHANGED <<serverVars, db, syncVars, asleep, savedEditSeq, gotChannel,
                   genVars, att, faults>>

\* A character that is not on screen is changed by the program: the change
\* effects do not see it, only the patcher's hash does.
BackgroundEdit(c) ==
    /\ c \in Active(db) /\ c # head
    /\ unseen < MaxUnseen /\ unseen' = unseen + 1
    /\ db' = [db EXCEPT ![c] =
                [by |-> "background", n |-> unseen + 1, st |-> "active"]]
    /\ UNCHANGED <<serverVars, syncVars, trackVars, asleep, seqVars,
                   gotChannel, generating, att, faults>>

GenerationStarts(c) ==
    /\ c \in Active(db) \ generating
    /\ unseen < MaxUnseen /\ unseen' = unseen + 1
    /\ generating' = generating \cup {c}
    /\ UNCHANGED <<serverVars, db, syncVars, trackVars, asleep, seqVars,
                   gotChannel, att, faults>>

GenerationEnds(c) ==
    /\ c \in generating
    /\ generating' = generating \ {c}
    /\ UNCHANGED <<unseen, serverVars, db, syncVars, trackVars, asleep, seqVars,
                   gotChannel, att, faults>>

OtherWrites(f, st) ==
    /\ foreign < MaxForeign
    /\ st \in (IF f \notin Chars THEN {"active"}
               ELSE IF view[f].st = "active" THEN Statuses
               ELSE IF view[f].st = "archived" THEN {"active"} ELSE {})
    /\ foreign' = foreign + 1
    /\ view' = [view EXCEPT ![f] =
                  [by |-> "other", n |-> foreign + 1, st |-> st]]
    /\ reached' = reached \cup {view'[f]}
    /\ registered' = registered \cap Archived(view')
    /\ UNCHANGED <<db, syncVars, trackVars, asleep, seqVars, gotChannel,
                   genVars, att, faults>>

\* The server forgets which characters were activated.
ServerRestarts ==
    /\ registered # {} /\ Fault
    /\ registered' = {}
    /\ UNCHANGED <<view, reached, foreign, db, syncVars, trackVars, asleep,
                   seqVars, gotChannel, genVars, att>>

---------------------------------------------------------------------------
(* A save attempt.  It takes what the tracker holds, posts the chats, and  *)
(* sends a patch from the patcher's baseline to the live database.  The    *)
(* baseline moves to what is sent before the answer is known.              *)

Takes(byLoop) ==
    /\ att = Idle /\ ~gotChannel
    /\ tracked # {}
    /\ att' = [Idle EXCEPT !.pc = "chats", !.toSave = tracked, !.head = head,
                           !.start = editSeq, !.byLoop = byLoop]
    /\ tracked' = {head} \ {NoChar}
    /\ asleep' = FALSE
    /\ UNCHANGED <<serverVars, db, syncVars, head, seqVars, gotChannel,
                   genVars, faults>>

LoopSaves == changed /\ changed' = FALSE /\ Takes(TRUE)

\* flushSaves starts an attempt of its own, and so does a page that is
\* hidden, which also wakes the loop.
Flush == changed' \in {changed, TRUE} /\ Takes(FALSE)

\* triggerSave hands the loop the save that is in flight already.
LoopJoins ==
    /\ changed /\ att # Idle /\ ~att.byLoop
    /\ changed' = FALSE /\ asleep' = TRUE
    /\ att' = [att EXCEPT !.byLoop = TRUE]
    /\ UNCHANGED <<serverVars, db, syncVars, tracked, head, seqVars,
                   gotChannel, genVars, faults>>

\* Mutated Requeue: not used by the specification.
RequeueOverNewer(toSave, h) ==
    /\ tracked' = toSave
    /\ head' \in IF h # NoChar THEN {h}
                ELSE IF toSave \cap Chars = {} THEN {NoChar}
                ELSE toSave \cap Chars

\* The changes return to the tracker, in front of newer ones.
Requeue(toSave, h) ==
    /\ tracked' = tracked \cup toSave
    /\ head' \in IF h # NoChar THEN {h}
                ELSE IF toSave \cap Chars = {} THEN {head}
                ELSE toSave \cap Chars

\* What the baseline is after set(): blocks only move when they are tracked.
Sent(b, d, toSave) ==
    [f \in Fields |->
        IF f \in (Blocks \cup Plugins) \ toSave THEN b[f] ELSE d[f]]

PatchSet ==
    /\ att.pc = "chats"
    /\ base' = Sent(base, db, att.toSave)
    /\ att' = [att EXCEPT !.pc = "patch", !.exp = base, !.sent = base',
                          !.wide = {c \in Active(db) : base[c] # db[c]}]
    /\ UNCHANGED <<serverVars, db, etag, synced, trackVars, asleep, seqVars,
                   gotChannel, genVars, faults>>

\* The server takes d, unless a character returns in it from the archive whose
\* activation it does not know of.
Stores(d) ==
    /\ Active(d) \cap Archived(view) \subseteq registered
    /\ view' = d /\ reached' = reached \cup {d[f] : f \in Fields}
    /\ registered' = registered \cap Archived(d)

Rejects(d) ==
    /\ ~(Active(d) \cap Archived(view) \subseteq registered)
    /\ UNCHANGED <<view, reached, registered>>

Answered(pc, ans) == att' = [att EXCEPT !.pc = pc, !.ans = ans, !.cur = view']

ServerPatch ==
    /\ att.pc = "patch"
    /\ \/ att.exp = view /\ Stores(att.sent) /\ Answered("patched", "ok")
          /\ UNCHANGED faults
       \/ att.exp = view /\ Rejects(att.sent) /\ Answered("patched", "refused")
          /\ UNCHANGED faults
       \/ att.exp # view /\ UNCHANGED <<view, reached, registered>>
          /\ Answered("patched", "conflict") /\ UNCHANGED faults
       \/ Fault /\ UNCHANGED <<view, reached, registered>>
          /\ Answered("patched", "failed")
    /\ UNCHANGED <<foreign, db, syncVars, trackVars, asleep, seqVars,
                   gotChannel, genVars>>

ServerWrite ==
    /\ att.pc = "write"
    /\ \/ etag = view /\ Stores(att.sent) /\ Answered("written", "ok")
       \/ etag = view /\ Rejects(att.sent) /\ Answered("written", "refused")
       \/ etag # view /\ UNCHANGED <<view, reached, registered>>
          /\ Answered("written", "conflict")
    /\ UNCHANGED <<foreign, db, syncVars, trackVars, asleep, seqVars,
                   gotChannel, genVars, faults>>

\* A lost answer is a network error: authFetch sends the request again.
AnswerLost ==
    /\ att.pc \in {"patched", "written"}
    /\ Fault
    /\ att' = [att EXCEPT !.pc = IF @ = "patched" THEN "patch" ELSE "write",
                          !.ans = "none", !.cur = NewDb]
    /\ UNCHANGED <<serverVars, db, syncVars, trackVars, asleep, seqVars,
                   gotChannel, genVars>>

---------------------------------------------------------------------------
(* The ends of an attempt.                                                 *)

\* Mutated Saved: not used by the specification.
SavedByNow ==
    /\ att' = Idle
    /\ savedEditSeq' = editSeq
    /\ UNCHANGED <<serverVars, db, trackVars, asleep, edits, editSeq, gotChannel,
                   genVars, faults>>

Saved ==
    /\ att' = Idle
    /\ savedEditSeq' = IF att.start > savedEditSeq THEN att.start
                                                   ELSE savedEditSeq
    /\ UNCHANGED <<serverVars, db, trackVars, asleep, edits, editSeq, gotChannel,
                   genVars, faults>>

PatchSaved ==
    /\ att.pc = "patched" /\ att.ans = "ok"
    /\ etag' = att.sent /\ synced' = att.sent
    /\ UNCHANGED base
    /\ Saved

WriteSaved ==
    /\ att.pc = "written" /\ att.ans = "ok"
    /\ etag' = att.sent /\ synced' = att.sent
    /\ base' = att.sent
    /\ Saved

\* A refusal of the very revision this page synced against, or an error
\* answer without a revision: a full write of the live database.
FullWrite ==
    /\ att.pc = "patched"
    /\ att.ans = "failed" \/ (att.ans = "conflict" /\ att.cur = etag)
    /\ att' = [att EXCEPT !.pc = "write", !.sent = db, !.ans = "none",
                          !.cur = NewDb]
    /\ UNCHANGED <<serverVars, db, syncVars, trackVars, asleep, seqVars,
                   gotChannel, genVars, faults>>

\* Mutated Fails: not used by the specification.
FailsAsleep ==
    /\ att' = Idle
    /\ Requeue(att.toSave, att.head)
    /\ UNCHANGED <<serverVars, db, changed, asleep, seqVars, gotChannel, genVars>>

Fails ==
    /\ att' = Idle
    /\ Requeue(att.toSave, att.head)
    /\ changed' = TRUE
    /\ UNCHANGED <<serverVars, db, asleep, seqVars, gotChannel, genVars>>

\* A chat that cannot be posted, or a request that never arrives, throws.
RequestLost ==
    /\ att.pc \in {"chats", "patch", "write"}
    /\ Fault
    /\ UNCHANGED syncVars
    /\ Fails

\* The request arrived, its answer and every repetition were lost.
GivesUp ==
    /\ att.pc \in {"patched", "written"}
    /\ Fault
    /\ UNCHANGED syncVars
    /\ Fails

\* After a handoff the server may refuse what is in flight (423).
Refused ==
    /\ att.pc \in {"patch", "write"} /\ gotChannel
    /\ UNCHANGED <<syncVars, faults>>
    /\ Fails

\* SaveRejectedError: the server refused the page's own revision, and sending it
\* again would only be refused again.  The changes stay queued, and nothing but
\* the next edit starts another save.
SaveRejected ==
    /\ att.pc \in {"patched", "written"}
    /\ att.ans = "refused" /\ att.cur = etag
    /\ att' = Idle
    /\ Requeue(att.toSave, att.head)
    /\ asleep' = TRUE
    /\ UNCHANGED <<serverVars, db, syncVars, changed, seqVars, gotChannel,
                   genVars, faults>>

---------------------------------------------------------------------------
(* A conflict with a foreign revision: read the server's database, lay the *)
(* page's changes over it, and try again from there.                       *)

StartsRebase ==
    /\ \/ att.pc = "patched" /\ att.ans \in {"conflict", "refused"}
          /\ att.cur # etag
       \/ att.pc = "written" /\ att.ans = "conflict"
    /\ etag' = att.cur
    /\ att' = [att EXCEPT !.pc = "read", !.old = etag, !.ans = "none",
                          !.cur = NewDb, !.sent = NewDb]
    /\ UNCHANGED <<serverVars, db, base, synced, trackVars, asleep, seqVars,
                   gotChannel, genVars, faults>>

ServerRead ==
    /\ att.pc = "read"
    /\ att' = [att EXCEPT !.pc = "merge", !.cur = view]
    /\ etag' = view
    /\ UNCHANGED <<serverVars, db, base, synced, trackVars, asleep, seqVars,
                   gotChannel, genVars, faults>>

ReadFails ==
    /\ att.pc \in {"read", "merge"}
    /\ Fault
    /\ UNCHANGED syncVars
    /\ Fails

\* Mutated Overlaid: not used by the specification.
OverlaidTaken == (att.toSave \cup att.wide \cup generating) \cap Chars

\* Laid over the server's copy whole: what the attempt tracked or saw
\* change, what waits in the tracker, and what a reply streams into.
Overlaid == (att.toSave \cup att.wide \cup tracked \cup generating) \cap Chars

\* The page deactivated or activated c since its last sync.
PutAway(c) == c \in Archived(db) \ Archived(att.exp)
Returned(c) == c \in Active(db) \cap Archived(att.exp) \cap Archived(att.cur)

\* Deactivated elsewhere while this page still holds edits of it.
Skipped ==
    {c \in Overlaid : c \in Active(db) \cap Archived(att.cur) /\ ~Returned(c)}

Gone == [by |-> "merge", n |-> 0, st |-> "gone"]

MergedChar(c) ==
    CASE c \in Active(db) ->
            IF Returned(c) \/ c \in Overlaid \ Skipped THEN db[c] ELSE att.cur[c]
      [] PutAway(c) ->
            IF c \in Archived(att.cur) THEN att.cur[c] ELSE db[c]
      [] OTHER ->
            IF c \in Overlaid \cap Active(att.cur) THEN Gone ELSE att.cur[c]

\* Mutated Merged: not used by the specification.
MergedOwnRoots ==
    [f \in Fields |->
        CASE f \in Roots -> db[f]
          [] f \in Blocks -> IF f \in att.toSave THEN db[f] ELSE att.cur[f]
          [] f \in Plugins -> att.cur[f]
          [] f \in Chars -> MergedChar(f)]

\* Mutated Merged: not used by the specification.
MergedFromNewBaseline ==
    [f \in Fields |->
        CASE f \in Roots -> IF db[f] # base[f] THEN db[f] ELSE att.cur[f]
          [] f \in Blocks -> IF f \in att.toSave THEN db[f] ELSE att.cur[f]
          [] f \in Plugins -> att.cur[f]
          [] f \in Chars -> MergedChar(f)]

\* A root key comes from the page if it differs from the baseline the
\* attempt started from, a block if the attempt took its flag.
Merged ==
    [f \in Fields |->
        CASE f \in Roots -> IF db[f] # att.exp[f] THEN db[f] ELSE att.cur[f]
          [] f \in Blocks -> IF f \in att.toSave THEN db[f] ELSE att.cur[f]
          [] f \in Plugins -> att.cur[f]
          [] f \in Chars -> MergedChar(f)]

\* A new database object: every change effect fires once more.
Rebased ==
    /\ att.pc = "merge" /\ Skipped \cap generating = {}
    /\ db' = Merged
    /\ base' = att.cur /\ synced' = att.cur
    /\ generating' = generating \cap Active(db')
    /\ editSeq' = editSeq + 1
    /\ LET moved == {c \in Chars : (c \in Active(db)) # (c \in Active(db'))}
       IN  Requeue(att.toSave \cup Overlaid \cup moved \cup (Fields \ Chars),
                   att.head)
    /\ changed' = TRUE
    /\ att' = Idle
    /\ UNCHANGED <<serverVars, etag, asleep, edits, savedEditSeq, gotChannel,
                   unseen, faults>>

\* The baseline before set(), as far as set() did not change it in place:
\* root keys and the deactivated list are old, the rest is new.
BaselineBefore ==
    [f \in Fields |->
        CASE f \in Roots \cup Archived(att.exp) -> att.exp[f]
          [] f \in Archived(base) \ Archived(att.exp) -> Gone
          [] OTHER -> base[f]]

\* A reply still streams into a character deactivated elsewhere, and the
\* stopped send does not end in time: give up and undo the rebase.
Defers ==
    /\ att.pc = "merge" /\ Skipped \cap generating # {}
    /\ Fault
    /\ base' = BaselineBefore
    /\ etag' = att.old
    /\ Requeue(att.toSave \cup Overlaid, att.head)
    /\ changed' = TRUE
    /\ att' = Idle
    /\ UNCHANGED <<serverVars, db, synced, asleep, seqVars, gotChannel,
                   genVars>>

---------------------------------------------------------------------------
(* The handoff: another tab or device has the writer role.  The page keeps *)
(* its unsaved edits until the user chooses; without any it reloads.       *)

HandOff ==
    /\ ~gotChannel
    /\ gotChannel' = TRUE
    /\ UNCHANGED <<serverVars, db, syncVars, trackVars, asleep, seqVars,
                   genVars, att, faults>>

Reload ==
    /\ db' = view /\ base' = view /\ etag' = view /\ synced' = view
    /\ tracked' = {} /\ head' = NoChar
    /\ changed' = FALSE /\ asleep' = FALSE
    /\ savedEditSeq' = editSeq
    /\ gotChannel' = FALSE
    /\ generating' = {}
    /\ UNCHANGED <<serverVars, edits, editSeq, unseen, att, faults>>

AutoReload == gotChannel /\ att = Idle /\ editSeq <= savedEditSeq /\ Reload

UserReload == gotChannel /\ att = Idle /\ editSeq > savedEditSeq /\ Reload

---------------------------------------------------------------------------

PageSteps ==
    \/ LoopSaves \/ LoopJoins \/ PatchSet
    \/ PatchSaved \/ WriteSaved \/ FullWrite \/ SaveRejected \/ StartsRebase
    \/ Rebased \/ Refused

ServerSteps == ServerPatch \/ ServerWrite \/ ServerRead

Next ==
    \/ \E f \in Fields, st \in Statuses : Edit(f, st) \/ OtherWrites(f, st)
    \/ \E c \in Chars :
          \/ Selects(c) \/ BackgroundEdit(c)
          \/ GenerationStarts(c) \/ GenerationEnds(c)
    \/ PageSteps \/ ServerSteps
    \/ Flush \/ AnswerLost \/ RequestLost \/ GivesUp \/ ReadFails
    \/ ServerRestarts \/ Defers \/ HandOff \/ AutoReload \/ UserReload

\* The loop polls for ever, the server answers what reaches it, and a
\* stopped generation ends: every exit of a send ends its entry.
Spec ==
    /\ Init /\ [][Next]_vars
    /\ WF_vars(PageSteps) /\ WF_vars(ServerSteps)
    /\ \A c \in Chars : WF_vars(GenerationEnds(c))

---------------------------------------------------------------------------
(* Properties.                                                             *)

\* f holds an edit of the page's user that the server never had.
Unsaved(f) == db[f].by = "page" /\ db[f] \notin reached

\* An edit counted as saved is one the server has had: the difference of
\* editSeq and savedEditSeq, which decides whether a handoff may reload the
\* page without asking, hides nothing (saveDb, triggerSave, flushSaves).
SavedReached ==
    \A f \in Fields : Unsaved(f) => db[f].n > savedEditSeq

\* Every unsaved edit is in the tracker or in the attempt that will return
\* it there: no failure, rebase or overlapping save forgets one.
NothingForgotten ==
    \A f \in Fields : Unsaved(f) => f \in tracked \cup att.toSave

\* An edit the server never had is counted as unsaved, and some save will
\* take it.
EditsAccounted == SavedReached /\ NothingForgotten

\* The characters and blocks the attempt tracked, which a rebase lays whole
\* over the server's, edited or not.
LaidWhole == att.toSave \cap (Chars \cup Blocks)

\* What this page writes over a field is an edit of its own that it does not
\* know to be saved: nothing another device wrote is taken back.  Left out are
\* what a rebase lays whole, and a page whose etag is of a revision it failed
\* to read.
Reverts(f) ==
    /\ view'[f] # view[f] /\ view'[f] \in reached
    /\ view'[f].by = "page" => view'[f].n <= savedEditSeq

NeverReverts ==
    [][foreign' = foreign /\ etag = synced =>
         \A f \in Fields \ LaidWhole : ~Reverts(f)]_vars

\* A rebase drops an edit of a character only if the character was
\* deactivated elsewhere, which the user is told: edits the attempt carried,
\* edits made while it was in flight, and edits no change effect saw.
CharacterEditsKept ==
    [][Rebased => \A c \in Active(db) \ Archived(att.cur) :
         Unsaved(c) \/ (att.exp[c] # db[c] /\ c \in att.wide) => db'[c] = db[c]]_vars

\* A rebase keeps every unsaved edit of a root key, unless the baseline
\* already held an edit that never arrived.
RootEditsKept ==
    [][Rebased => \A r \in Roots :
         Unsaved(r) /\ att.exp[r] \in reached => db'[r] = db[r]]_vars

\* A rebase loses no edit of the page but for those two reasons.
RebaseKeepsEdits == CharacterEditsKept /\ RootEditsKept

\* A page that reloads by itself loses no edit of its user.
AutoReloadLosesNothing ==
    [][AutoReload => \A f \in Fields : ~Unsaved(f)]_vars

\* Unsaved edits reach the server, whatever fails on the way, unless the
\* page hands off or another device's change of the same character takes
\* them out of the database.  Two kinds of edits stay queued until the next
\* one: those of a rejected save, and one made while the loop waits for a save
\* it did not start (globalApi.svelte.ts:1671-1680, 1624-1626).
EditsGetSaved ==
    (\E f \in Fields : Unsaved(f))
        ~> (gotChannel \/ asleep \/ \A f \in Fields : ~Unsaved(f))

===========================================================================
